---- MODULE Spec2Model ----
(***************************************************************************)
(* Kinematics and workspace-lookup engine of the throwing-arm controller   *)
(* (src/kinematic.py, class Kinematic).                                    *)
(*                                                                         *)
(* Real numbers are fixed-point integers.  One scale serves every real    *)
(* the matrices hold: a real v is the integer round(v * Q), Q = 10^4, so   *)
(* a rotation entry 1.0 is 10000, a length of 0.3542 m is 3542 and the     *)
(* homogeneous 1.0 is 10000.  Angles are in 10^-4 rad, tensions in         *)
(* 10^-2 N, moments in 10^-3 N.m, curvatures in 10^-4 1/m, the zero        *)
(* curvature tolerance in 10^-6 1/m.                                       *)
(***************************************************************************)
EXTENDS Integers, Sequences, FiniteSets, TLC

\* ------------------------------------------------------------------------
\* Fixed-point arithmetic
\* ------------------------------------------------------------------------

\* Scale of the fixed-point reals (1.0 is Q).
Q == 10000

\* pi, in 10^-4 rad.
PI_Q == 31416

Abs(a) == IF a < 0 THEN -a ELSE a

Sign(a) == IF a < 0 THEN -1 ELSE IF a > 0 THEN 1 ELSE 0

\* a / b rounded to the nearest integer, halves away from zero (b > 0).
RDiv(a, b) == IF a >= 0 THEN (2 * a + b) \div (2 * b)
              ELSE -((2 * (-a) + b) \div (2 * b))

\* Product of two fixed-point reals.
FMul(a, b) == RDiv(a * b, Q)

RECURSIVE SqrtIter(_, _)
SqrtIter(v, g) ==
    LET h == (g + v \div g) \div 2
    IN  IF h >= g THEN g ELSE SqrtIter(v, h)

\* Floor of the square root of v >= 0 (Newton's iteration).
ISqrt(v) == IF v <= 0 THEN 0 ELSE IF v < 4 THEN 1 ELSE SqrtIter(v, v \div 2)

\* One step of a Taylor series in nested form: x2 * inner / d.
SeriesStep(x2, d, inner) == RDiv(x2 * inner, d * Q)

\* 1 - x2/2 (1 - x2/12 (1 - x2/30 (1 - x2/56))): cos as its Taylor
\* polynomial to x^8, x2 the square of the angle.
CosSeries(x2) ==
    Q - SeriesStep(x2, 2, Q - SeriesStep(x2, 12,
            Q - SeriesStep(x2, 30, Q - SeriesStep(x2, 56, Q))))

\* 1 - x2/6 (1 - x2/20 (1 - x2/42 (1 - x2/72))): sin(x)/x as its Taylor
\* polynomial to x^8.
SinSeries(x2) ==
    Q - SeriesStep(x2, 6, Q - SeriesStep(x2, 20,
            Q - SeriesStep(x2, 42, Q - SeriesStep(x2, 72, Q))))

\* cos of x, 0 <= x <= pi/2.
CosPoly(x) == CosSeries(FMul(x, x))

\* sin of x, 0 <= x <= pi/2.
SinPoly(x) == FMul(x, SinSeries(FMul(x, x)))

\* x brought into (-pi, pi].
WrapAngle(x) ==
    LET m == x % (2 * PI_Q)
    IN  IF m > PI_Q THEN m - 2 * PI_Q ELSE m

\* An angle a in [0, pi] folded into [0, pi/2]: a or pi - a.
FoldAngle(a) == IF 2 * a <= PI_Q THEN a ELSE PI_Q - a

\* cos of w in (-pi, pi]: cos(|w|), and cos(a) = -cos(pi - a) past pi/2.
CosWrapped(w) ==
    (IF 2 * Abs(w) <= PI_Q THEN 1 ELSE 0 - 1) * CosPoly(FoldAngle(Abs(w)))

\* sin of w in (-pi, pi]: sin(a) = sin(pi - a), and sin is odd.
SinWrapped(w) == Sign(w) * SinPoly(FoldAngle(Abs(w)))

\* np.cos on an angle in 10^-4 rad.
Cos(x) == CosWrapped(WrapAngle(x))

\* np.sin on an angle in 10^-4 rad.
Sin(x) == SinWrapped(WrapAngle(x))

\* atan(r) for 0 <= r <= 1, r2 its square (polynomial of Abramowitz and
\* Stegun 4.4.49, error below 10^-4 rad).
AtanSeries(r, r2) ==
    FMul(r, 9999 - FMul(r2, 3303 - FMul(r2, 1801 - FMul(r2,
                851 - FMul(208, r2)))))

AtanUnit(r) == AtanSeries(r, FMul(r, r))

\* atan of the ratio num/den, 0 <= num <= den, den > 0.
AtanRatio(num, den) == AtanUnit(RDiv(num * Q, den))

\* Both arguments scaled down together until they fit the multiplication.
RECURSIVE FitPair(_, _)
FitPair(y, x) ==
    IF Abs(y) <= 100000 /\ Abs(x) <= 100000 THEN <<y, x>>
    ELSE FitPair(RDiv(y, 10), RDiv(x, 10))

\* The angle of the point (ax, ay) of the first quadrant; 0 at the origin.
ArctanAbs(ay, ax) ==
    IF ax = 0 /\ ay = 0 THEN 0
    ELSE IF ay <= ax THEN AtanRatio(ay, ax)
    ELSE PI_Q \div 2 - AtanRatio(ax, ay)

\* The first-quadrant angle a moved to the quadrant of (x, y).
ArctanSigned(y, x, a) ==
    IF y < 0 THEN 0 - (IF x >= 0 THEN a ELSE PI_Q - a)
    ELSE IF x >= 0 THEN a ELSE PI_Q - a

ArctanPair(f) == ArctanSigned(f[1], f[2], ArctanAbs(Abs(f[1]), Abs(f[2])))

\* np.arctan2(y, x) in 10^-4 rad; arctan2(0, 0) = 0.
Arctan2(y, x) == ArctanPair(FitPair(y, x))

\* The root s = floor(sqrt(v)) rounded to the nearest integer.
RoundRoot(v, s) == IF v - s * s > s THEN s + 1 ELSE s

\* np.hypot(x, y): the magnitude, scaled so that the squares fit.
RECURSIVE Hypot(_, _)
Hypot(x, y) ==
    IF Abs(x) > 30000 \/ Abs(y) > 30000
    THEN 10 * Hypot(RDiv(x, 10), RDiv(y, 10))
    ELSE RoundRoot(x * x + y * y, ISqrt(x * x + y * y))

\* np.linspace(0, stop, n)[k], k in 0..n-1: n values from 0 to stop
\* inclusive; the single value of linspace(0, stop, 1) is 0.
Linspace(stop, n, k) == IF n <= 1 THEN 0 ELSE RDiv(k * stop, n - 1)

\* ------------------------------------------------------------------------
\* Section parameters (Kinematic.__init__, self.params)
\* ------------------------------------------------------------------------

\* params['L']: section lengths, 0.3542, 0.289, 0.2268 m.
L == <<3542, 2890, 2268>>

\* params['nPoints']: sample points per section.
nPoints == 10

\* params['r_disk']: tendon routing radius, 0.0449, 0.0376, 0.0270 m.
r_disk == <<449, 376, 270>>

\* np.cos(params['sigma']): the cosines of the tendon angles
\* [0, 2pi/3, 4pi/3], [pi/6, 5pi/6, 3pi/2], [pi/3, pi, 5pi/3].
cos_sigma == << <<10000, -5000, -5000>>,
                <<8660, -8660, 0>>,
                <<5000, -10000, 5000>> >>

\* np.sin(params['sigma']).
sin_sigma == << <<0, 8660, -8660>>,
                <<5000, 5000, -10000>>,
                <<8660, 0, -8660>> >>

\* params['Kbend']: bending stiffness, 17.860, 11.819, 7.036 N.m^2, in
\* 10^-3 N.m^2.
Kbend == <<17860, 11819, 7036>>

\* len(L): the number of sections.
n_sec == Len(L)

\* The default of trans_mat_cc's tol, 1e-6 1/m, in 10^-6 1/m.
DefaultTol == 1

\* ------------------------------------------------------------------------
\* Matrices
\* ------------------------------------------------------------------------

\* np.eye(3) and np.eye(4).
Eye3 == << <<Q, 0, 0>>, <<0, Q, 0>>, <<0, 0, Q>> >>

Eye4 == << <<Q, 0, 0, 0>>, <<0, Q, 0, 0>>, <<0, 0, Q, 0>>, <<0, 0, 0, Q>> >>

\* Entry (i, j) of A @ B for two 3 x 3 matrices.
Dot3(A, B, i, j) ==
    RDiv(A[i][1] * B[1][j] + A[i][2] * B[2][j] + A[i][3] * B[3][j], Q)

\* A @ B for two 3 x 3 matrices.
MatMul3(A, B) ==
    << <<Dot3(A, B, 1, 1), Dot3(A, B, 1, 2), Dot3(A, B, 1, 3)>>,
       <<Dot3(A, B, 2, 1), Dot3(A, B, 2, 2), Dot3(A, B, 2, 3)>>,
       <<Dot3(A, B, 3, 1), Dot3(A, B, 3, 2), Dot3(A, B, 3, 3)>> >>

\* Entry (i, j) of A @ B for two 4 x 4 matrices.
Dot4(A, B, i, j) ==
    RDiv(A[i][1] * B[1][j] + A[i][2] * B[2][j] + A[i][3] * B[3][j]
         + A[i][4] * B[4][j], Q)

\* One row of A @ B for two 4 x 4 matrices.
Row4(A, B, i) ==
    <<Dot4(A, B, i, 1), Dot4(A, B, i, 2), Dot4(A, B, i, 3), Dot4(A, B, i, 4)>>

\* A @ B for two 4 x 4 matrices.
MatMul4(A, B) == <<Row4(A, B, 1), Row4(A, B, 2), Row4(A, B, 3), Row4(A, B, 4)>>

\* Variant of the frame: T built without the line T[:, 3, 3] = 1.0, so the
\* bottom row stays the zeros of np.zeros((n_pts, 4, 4)).
HomogeneousNoOne(R, p) ==
    << <<R[1][1], R[1][2], R[1][3], p[1]>>,
       <<R[2][1], R[2][2], R[2][3], p[2]>>,
       <<R[3][1], R[3][2], R[3][3], p[3]>>,
       <<0, 0, 0, 0>> >>

\* The homogeneous transform built from rotation R and position p:
\* T = zeros; T[:3, :3] = R; T[:3, 3] = p; T[3, 3] = 1.0.
Homogeneous(R, p) ==
    << <<R[1][1], R[1][2], R[1][3], p[1]>>,
       <<R[2][1], R[2][2], R[2][3], p[2]>>,
       <<R[3][1], R[3][2], R[3][3], p[3]>>,
       <<0, 0, 0, Q>> >>

\* A sequence given as a function over 1..n, as the tuple of its values.
AsTuple(f) == SubSeq(f, 1, Len(f))

\* T[:3, 3]: the translation of a frame.
Translation(T) == <<T[1][4], T[2][4], T[3][4]>>

\* ------------------------------------------------------------------------
\* Kinematic.trans_mat_cc
\* ------------------------------------------------------------------------

\* abs(kappa) < tol, kappa in 10^-4 1/m and tol in 10^-6 1/m.
IsStraight(kappa, tol) == Abs(kappa) * 100 < tol

\* One frame of the straight branch at arc length s.
StraightFrame(s) == Homogeneous(Eye3, <<0, 0, s>>)

\* The frame of the curved branch from the cosines and sines of phi and of
\* theta = kappa * s: R = Rz1 @ Ry @ Rz2 and
\* p = (1.0 / kappa) * [(1 - ct) * cphi, (1 - ct) * sphi, st].
FrameOf(inv_kappa, cphi, sphi, ct, st) ==
    Homogeneous(
        MatMul3(MatMul3(<< <<cphi, -sphi, 0>>, <<sphi, cphi, 0>>, <<0, 0, Q>> >>,
                        << <<ct, 0, st>>, <<0, Q, 0>>, <<-st, 0, ct>> >>),
                << <<cphi, sphi, 0>>, <<-sphi, cphi, 0>>, <<0, 0, Q>> >>),
        << FMul(inv_kappa, FMul(Q - ct, cphi)),
           FMul(inv_kappa, FMul(Q - ct, sphi)),
           FMul(inv_kappa, st) >>)

\* One frame of the curved branch at arc length s.
CurvedFrame(kappa, phi, s) ==
    FrameOf(RDiv(Q * Q, kappa), Cos(phi), Sin(phi),
            Cos(FMul(kappa, s)), Sin(FMul(kappa, s)))

\* trans_mat_cc(kappa, phi, L, n_pts, tol): the n_pts frames of one
\* constant-curvature section, at s_vals = np.linspace(0, L, n_pts).  The
\* division 1.0 / kappa of the curved branch has no guard of its own.
trans_mat_cc(kappa, phi, Lj, n_pts, tol) ==
    IF IsStraight(kappa, tol)
    THEN AsTuple([k \in 1..n_pts |-> StraightFrame(Linspace(Lj, n_pts, k - 1))])
    ELSE IF kappa = 0 THEN "ZeroDivision"
    ELSE AsTuple([k \in 1..n_pts |->
                     CurvedFrame(kappa, phi, Linspace(Lj, n_pts, k - 1))])

\* ------------------------------------------------------------------------
\* Kinematic.soft_arm_pcc
\* ------------------------------------------------------------------------

\* r_disk * np.sum(tensions.reshape(n_sec, 3) * trig, axis=1), for section j:
\* the local bending moment of the three tendons of section j.
LocalMoment(tensions, trig, j) ==
    LET t(i) == tensions[3 * (j - 1) + i]
        sum  == RDiv(t(1) * trig[j][1] + t(2) * trig[j][2] + t(3) * trig[j][3], Q)
    IN  RDiv(r_disk[j] * sum, 1000)

RECURSIVE SumFrom(_, _)
\* np.sum(M[j:]).
SumFrom(M, j) == IF j > Len(M) THEN 0 ELSE M[j] + SumFrom(M, j + 1)

\* Variant of the accumulation: np.cumsum(M_local), the sum of the moments
\* of the sections up to j in place of those from j on.
CumMomentProximal(M_local) ==
    AsTuple([j \in 1..n_sec |-> SumFrom(M_local, 1) - SumFrom(M_local, j + 1)])

\* np.array([np.sum(M_local[j:]) for j in range(n_sec)]).
CumMoment(M_local) == AsTuple([j \in 1..n_sec |-> SumFrom(M_local, j)])

\* Step 1: r_disk * np.sum(tensions.reshape(n_sec, 3) * trig, axis=1).
LocalMoments(tensions, trig) ==
    AsTuple([j \in 1..n_sec |-> LocalMoment(tensions, trig, j)])

\* Step 3: phi_vals = arctan2(My_cum, Mx_cum), M_mags = hypot(Mx_cum, My_cum),
\* kappa_vals = M_mags / Kbend and curvatures = vstack((kappa_vals, phi_vals,
\* L)): row 1 the curvatures, row 2 the bending-plane angles, row 3 the
\* lengths, one column per section.
CurvatureParams(Mx_cum, My_cum) ==
    << AsTuple([j \in 1..n_sec |->
                   RDiv(Hypot(Mx_cum[j], My_cum[j]) * Q, Kbend[j])]),
       AsTuple([j \in 1..n_sec |-> Arctan2(My_cum[j], Mx_cum[j])]),
       L >>

\* Steps 1 to 3: the curvatures array of a tension vector.
Curvatures(tensions) ==
    CurvatureParams(CumMoment(LocalMoments(tensions, cos_sigma)),
                    CumMoment(LocalMoments(tensions, sin_sigma)))

\* Variant of the product: Tj_global = Tj_local, every section drawn from the
\* base frame instead of from the end of the section before it.
GlobalFramesUnchained(T_prev, Tj_local) == Tj_local

\* Tj_global = T_prev @ Tj_local, the batch product over the samples.
GlobalFrames(T_prev, Tj_local) ==
    AsTuple([k \in 1..Len(Tj_local) |-> MatMul4(T_prev, Tj_local[k])])

\* Variant of the seed: T_prev = Tj_global[0], the first frame of the section
\* in place of its last, so every section starts where the one before did.
NextSeedFirst(Tj_global) == Tj_global[1]

\* T_prev = Tj_global[-1]: the frame that seeds the next section.
NextSeed(Tj_global) == Tj_global[Len(Tj_global)]

RECURSIVE ChainFrames(_, _, _)
RECURSIVE ChainNext(_, _, _)
\* Step 4, the loop over the sections from section j on: the list frames.
ChainFrames(curvatures, j, T_prev) ==
    IF j > n_sec THEN <<>>
    ELSE ChainNext(curvatures, j,
             GlobalFrames(T_prev,
                 trans_mat_cc(curvatures[1][j], curvatures[2][j],
                              curvatures[3][j], nPoints, DefaultTol)))

\* The rest of one pass of the loop: frames.append(Tj_global), then the next
\* section with T_prev = Tj_global[-1].
ChainNext(curvatures, j, Tj_global) ==
    <<Tj_global>> \o ChainFrames(curvatures, j + 1, NextSeed(Tj_global))

\* Variant of the layout: positions[:, k*n_sec + j] = Tj_global[k, :3, 3],
\* sample-major and section-minor.
PositionsSampleMajor(frames) ==
    LET col(m) == Translation(frames[((m - 1) % n_sec) + 1][((m - 1) \div n_sec) + 1])
    IN  AsTuple([c \in 1..3 |->
                    AsTuple([m \in 1..(n_sec * nPoints) |-> col(m)[c]])])

\* positions[:, j*n:(j+1)*n] = Tj_global[:, :3, 3].T for every section: the
\* 3 x (n_sec * n) array whose column j*n + k is the translation of global
\* frame k of section j.
PositionsOf(frames) ==
    LET n == nPoints
        col(m) == Translation(frames[((m - 1) \div n) + 1][((m - 1) % n) + 1])
    IN  AsTuple([c \in 1..3 |-> AsTuple([m \in 1..(n_sec * n) |-> col(m)[c]])])

\* return positions, frames, curvatures.
Returned(curvatures, frames) ==
    [kind |-> "ok", positions |-> PositionsOf(frames),
     frames |-> frames, curvatures |-> curvatures]

\* Step 4 on the curvatures of steps 1 to 3.
ForwardKinematics(curvatures) ==
    Returned(curvatures, ChainFrames(curvatures, 1, Eye4))

\* Variant of the reshape: np.resize(tensions, (n_sec, 3)), which cuts or
\* pads (here with zeros) an input of another length and goes on.
soft_arm_pcc_resized(tensions) ==
    ForwardKinematics(Curvatures(
        AsTuple([i \in 1..(n_sec * 3) |->
                    IF i <= Len(tensions) THEN tensions[i] ELSE 0])))

\* soft_arm_pcc(tensions): tensions.reshape(n_sec, 3) raises ValueError
\* unless the flattened input has n_sec * 3 entries; nothing is returned then.
soft_arm_pcc(tensions) ==
    IF Len(tensions) # n_sec * 3
    THEN [kind |-> "ValueError"]
    ELSE ForwardKinematics(Curvatures(tensions))

\* ------------------------------------------------------------------------
\* Kinematic.generate_lookup_table: the sampler
\* ------------------------------------------------------------------------

\* Largest number of steps per tendon the sampler is run with (the source
\* sets n_steps = 25).
MaxSteps == 3

n_tendons == 9

\* tension_min = 0.0 and tension_max = 200.0 N.
tension_min == 0

tension_max == 20000

\* actuated_tendons = [6, 7, 8], indices from 0.
actuated_tendons == <<6, 7, 8>>

\* Variant of the sampled values: np.linspace(..., endpoint=False), which
\* leaves tension_max out.
tension_values_open(n) ==
    AsTuple([k \in 1..n |->
        tension_min + RDiv((k - 1) * (tension_max - tension_min), n)])

\* np.linspace(tension_min, tension_max, n_steps).
tension_values(n) ==
    AsTuple([k \in 1..n |->
        tension_min + Linspace(tension_max - tension_min, n, k - 1)])

\* tensions = np.zeros(n_tendons); tensions[actuated_tendons[i]] = t_i.
SamplerTensions(t1, t2, t3) ==
    AsTuple([i \in 1..n_tendons |->
        IF i = actuated_tendons[3] + 1 THEN t3
        ELSE IF i = actuated_tendons[2] + 1 THEN t2
        ELSE IF i = actuated_tendons[1] + 1 THEN t1
        ELSE 0])

\* Variant of the tip: positions[:, -2], the sample before the last.
TipPosBeforeLast(positions) ==
    <<positions[1][Len(positions[1]) - 1], positions[2][Len(positions[2]) - 1],
      positions[3][Len(positions[3]) - 1]>>

\* tip_pos = positions[:, -1]: the last column of the positions array.
TipPos(positions) ==
    LET last == Len(positions[1])
    IN  <<positions[1][last], positions[2][last], positions[3][last]>>

\* workspace_map.append([tip_pos[0], tip_pos[1], tip_pos[2], t1, t2, t3]).
RowOf(tip_pos, t1, t2, t3) ==
    <<tip_pos[1], tip_pos[2], tip_pos[3], t1, t2, t3>>

\* One pass of the innermost loop: the tension vector, soft_arm_pcc, the tip
\* and the appended row.
SampleRow(t1, t2, t3) ==
    RowOf(TipPos(soft_arm_pcc(SamplerTensions(t1, t2, t3)).positions),
          t1, t2, t3)

\* The three nested loops over tension_values: workspace_map, t1 outermost
\* and t3 innermost.
workspace_map(n) ==
    LET tv == tension_values(n)
    IN  AsTuple([m \in 1..(n * n * n) |->
            SampleRow(tv[((m - 1) \div (n * n)) + 1],
                      tv[(((m - 1) \div n) % n) + 1],
                      tv[((m - 1) % n) + 1])])

\* The tension vectors the sampler hands to soft_arm_pcc in one run.
sampler_calls(n) ==
    LET tv == tension_values(n)
    IN  {SamplerTensions(tv[a], tv[b], tv[c]) : a \in 1..n, b \in 1..n, c \in 1..n}

\* The progress printed after outer sweep i of a run with n steps:
\* int(i*n_steps**2).
progress(i, n) == i * n * n

\* The tables of the sampler runs with 1..MaxSteps steps, computed once.
SamplerTables == AsTuple([n \in 1..MaxSteps |-> workspace_map(n)])

\* workspace_map as one sampler run with n steps builds it.
GeneratedTable(n) == SamplerTables[n]

\* ------------------------------------------------------------------------
\* The persisted files and the spatial index
\* ------------------------------------------------------------------------

\* A file on disk: whether it exists, the row count its header declares
\* (-1 while no complete header is in it) and the rows written after it.
AbsentFile == [exists |-> FALSE, hdr |-> 0 - 1, data |-> <<>>]

\* A file whose bytes are no array header (empty, foreign or damaged).
GarbageFile == [exists |-> TRUE, hdr |-> 0 - 1, data |-> <<>>]

\* np.save("workspace_map.npy", table) run to its end: the header declaring
\* the shape, then every row.
np_save(table) == [exists |-> TRUE, hdr |-> Len(table), data |-> table]

\* Variant of a stopped np.save whose header declares the rows written so
\* far rather than the rows of the table.
np_save_cut_counted(table, rows_done) ==
    IF rows_done < 0 THEN [exists |-> TRUE, hdr |-> 0 - 1, data |-> <<>>]
    ELSE [exists |-> TRUE, hdr |-> rows_done,
          data |-> SubSeq(table, 1, rows_done)]

\* np.save stopped after the header and the first rows_done rows: the file
\* was opened for writing (emptied) and holds what was written until then;
\* rows_done = -1 stands for a stop before the header was complete.
np_save_cut(table, rows_done) ==
    IF rows_done < 0 THEN GarbageFile
    ELSE [exists |-> TRUE, hdr |-> Len(table),
          data |-> SubSeq(table, 1, rows_done)]

\* Whether np.load("workspace_map.npy") returns: the file exists, holds a
\* complete header and as many rows as the header declares; it raises
\* otherwise (FileNotFoundError, EOFError, ValueError).
np_load_ok(file) ==
    file.exists /\ file.hdr >= 0 /\ Len(file.data) = file.hdr

\* Variant of the load: the rows of the file in the reverse order.
np_load_reversed(file) ==
    AsTuple([m \in 1..Len(file.data) |-> file.data[Len(file.data) - m + 1]])

\* The array np.load returns.
np_load(file) == file.data

\* np.savetxt("workspace_map.csv", table, ...) run to its end: the header
\* line "X,Y,Z,T1,T2,T3" (hdr = 1), then one line per row.
np_savetxt(table) == [exists |-> TRUE, hdr |-> 1, data |-> table]

\* np.savetxt stopped after the header line and the first rows_done lines.
np_savetxt_cut(table, rows_done) ==
    IF rows_done < 0 THEN GarbageFile
    ELSE [exists |-> TRUE, hdr |-> 1, data |-> SubSeq(table, 1, rows_done)]

\* positions_only = self.lookup_table[:, :3].
positions_only(table) ==
    AsTuple([m \in 1..Len(table) |-> <<table[m][1], table[m][2], table[m][3]>>])

\* cKDTree(positions_only): the index holds the number of points it was
\* built from (tree.n) and the points, in their order (tree.data).
cKDTree(points) == [n |-> Len(points), data |-> points]

\* The distance of a query that finds no neighbour (inf).
Inf == 0 - 1

\* The squared Euclidean distance of two points.
Dist2(a, b) ==
    (a[1] - b[1]) * (a[1] - b[1]) + (a[2] - b[2]) * (a[2] - b[2])
    + (a[3] - b[3]) * (a[3] - b[3])

SmallerOf(a, b) == IF a <= b THEN a ELSE b

\* The Euclidean distance of two points.
Dist(a, b) == ISqrt(Dist2(a, b))

RECURSIVE MinDist2(_, _, _, _)
\* The least squared distance from target to the points lo..hi of the
\* index, by halves.
MinDist2(index, target, lo, hi) ==
    IF lo >= hi THEN Dist2(index.data[lo], target)
    ELSE SmallerOf(MinDist2(index, target, lo, (lo + hi) \div 2),
                   MinDist2(index, target, (lo + hi) \div 2 + 1, hi))

\* The indices (from 1) of the indexed points at squared distance best.
PointsAt(index, target, best) ==
    {i \in 1..index.n : Dist2(index.data[i], target) = best}

\* The indices (from 1) of the indexed points nearest to target.
Nearest(index, target) ==
    PointsAt(index, target, MinDist2(index, target, 1, index.n))

\* self.tree.query(target_xyz): the (dist, idx) pairs the query may return,
\* idx counted from 1.  An index over no point answers (inf, n) with n = 0,
\* which is idx 1 here; among equally near points the choice is the tree's.
tree_query(index, target) ==
    IF index.n = 0 THEN {<<Inf, index.n + 1>>}
    ELSE {<<Dist(index.data[i], target), i>> : i \in Nearest(index, target)}

\* inverse_kinematic(target_xyz) for one answer (dist, idx) of the tree:
\* x, y, z, t1, t2, t3 = self.lookup_table[idx] raises IndexError when the
\* table has no row idx; else the result is (t1, t2, t3), (x, y, z), dist.
inverse_kinematic(table, answer) ==
    LET dist == answer[1]
        idx  == answer[2]
    IN  IF idx > Len(table)
        THEN [kind |-> "IndexError", idx |-> idx]
        ELSE [kind |-> "ok", idx |-> idx, dist |-> dist,
              tensions |-> <<table[idx][4], table[idx][5], table[idx][6]>>,
              position |-> <<table[idx][1], table[idx][2], table[idx][3]>>]

\* ------------------------------------------------------------------------
\* Inputs
\* ------------------------------------------------------------------------

\* Longest tension sequence handed to soft_arm_pcc.
MaxLen == 10

\* The ways a run of generate_lookup_table can end: "none" is a run to its
\* end; np.save or np.savetxt may raise OSError before touching the file
\* ("npy_open", "csv_open") or part of the way through it ("npy_write",
\* "csv_write").
Faults == {"none", "npy_open", "npy_write", "csv_open", "csv_write"}

\* Where a write of the n^3 rows that stops part of the way may stop: before
\* the header is complete (-1), after the header, or one row short of the
\* end.
Cuts(n) == {0 - 1, 0, n * n * n - 1}

\* The tensions of one section's three tendons handed to soft_arm_pcc.
SectionTriples == {<<0, 0, 0>>, <<10000, 20000, 0>>}

\* The tension sequences handed to soft_arm_pcc: 9 entries made of the
\* triples above, the vector of test_soft_arm_pcc, and a sequence of every
\* other length up to MaxLen.
FKInputs ==
    {a \o b \o c : a \in SectionTriples, b \in SectionTriples, c \in SectionTriples}
    \cup {<<500, 400, 600, 300, 200, 400, 200, 100, 300>>}
    \cup {[i \in 1..len |-> 20000] : len \in (0..MaxLen) \ {n_sec * 3}}

\* soft_arm_pcc on every input above, computed once.
FKTable == [tensions \in FKInputs |-> soft_arm_pcc(tensions)]

\* The values a sequence holds.
Range(f) == {f[m] : m \in DOMAIN f}

\* The target of test_inverse_kinematic, (0.1, 0.05, 0.85).
TestTarget == <<1000, 500, 8500>>

\* The targets of the inverse queries: the test's target and the position
\* of every row of the table in memory and of every indexed point.
Targets(table, index) ==
    {TestTarget} \cup Range(positions_only(table)) \cup Range(index.data)

\* ------------------------------------------------------------------------
\* FeetechController and HO8110Controller as ThrowingArmController drives
\* them
\* ------------------------------------------------------------------------

\* FT_PULLBACK_SPEED, in steps/s.
FT_PULLBACK_SPEED == 1000

\* FT_MAX_PULLBACK, in steps.
FT_MAX_PULLBACK == 3500

\* HO_DEFAULT_SPEED = 100 rpm in rad/s, in units of 10^-3 rad/s.
HO_DEFAULT_SPEED == 10472

\* One call on a controller as it reaches the hardware layer: the device,
\* the method, the motor or servo ids and the values.
Cmd(dev, cmd, ids, val) == [dev |-> dev, cmd |-> cmd, ids |-> ids, val |-> val]

\* The calls that command a motor or a servo: speed, position, current,
\* enable and torque writes.
MotorCommands ==
    {"set_speed", "set_position", "disable_torque", "broadcast_speed",
     "broadcast_enable", "broadcast_current", "batch_position"}

\* The motor commands among the calls of a trace.
MotorCommandsOf(trace) ==
    SelectSeq(trace, LAMBDA c : c.cmd \in MotorCommands)

\* last_sync_write of a FeetechController that made no sync write yet
\* (servo_ids [], address None).
NoSyncWrite == <<>>

\* ThrowingArmController.__init__ with its FeetechController.__init__: the
\* fields of the controller, of its Feetech controller (connected,
\* portHandler, last_sync_write) and whether the HO8110 controller runs.
ThrowingArmController ==
    [is_running |-> FALSE,
     home_position_feetech |-> <<0, 0>>,
     home_position_ho |-> <<0, 0, 0>>,
     loop_counter_1 |-> 0,
     loop_counter_2 |-> 0,
     connected |-> FALSE,
     portHandler |-> "None",
     last_sync_write |-> NoSyncWrite,
     ho_started |-> FALSE]

\* A call in progress on the controller c: the object, the calls made on
\* the hardware so far, the errors logged, the value of the last Feetech
\* call and the exception in flight ("none" while there is none).
Running(c) ==
    [arm |-> c, wire |-> <<>>, log |-> <<>>, res |-> FALSE, exc |-> "none"]

\* A call recorded on the trace.
Emit(m, c) == [m EXCEPT !.wire = Append(@, c)]

\* logger.error(msg).
LogError(m, msg) == [m EXCEPT !.log = Append(@, msg)]

\* A call on the HO8110 controller; nothing runs once an exception is in
\* flight.
ho_call(m, cmd, ids, val) ==
    IF m.exc # "none" THEN m ELSE Emit(m, Cmd("ho", cmd, ids, val))

\* A Feetech write to one servo (write1ByteTxRx / write2ByteTxRx): False
\* without a packet while not connected, else the packet and the result ok
\* of the exchange.
ft_write(m, cmd, sid, value, ok) ==
    IF m.exc # "none" THEN m
    ELSE IF ~m.arm.connected
    THEN [LogError(m, "Not connected") EXCEPT !.res = FALSE]
    ELSE [Emit(m, Cmd("feetech", cmd, <<sid>>, <<value>>)) EXCEPT !.res = ok]

\* A Feetech sync write to a list of servos: False while not connected;
\* when _check_sync_write_params finds the parameters of the previous sync
\* write, groupSyncWrite is not assigned and groupSyncWrite.txPacket()
\* raises UnboundLocalError; else the parameters are recorded and the packet
\* is sent.
ft_sync_write(m, cmd, ids, address, value, data_length, ok) ==
    IF m.exc # "none" THEN m
    ELSE IF ~m.arm.connected
    THEN [LogError(m, "Not connected") EXCEPT !.res = FALSE]
    ELSE IF m.arm.last_sync_write = <<ids, address, value, data_length>>
    THEN [m EXCEPT !.exc = "UnboundLocalError"]
    ELSE [Emit(m, Cmd("feetech", cmd, ids, <<value>>))
             EXCEPT !.res = ok,
                    !.arm.last_sync_write = <<ids, address, value, data_length>>]

\* feetech.set_speed(servo_id, speed) for one servo id.
set_speed(m, sid, speed, ok) == ft_write(m, "set_speed", sid, speed, ok)

\* feetech.set_speed([1, 2], speed): one common speed, a sync write of 2
\* bytes at SMS_STS_GOAL_SPEED_L.
set_speed_all(m, speed, ok) ==
    ft_sync_write(m, "set_speed", <<1, 2>>, "SMS_STS_GOAL_SPEED_L", speed, 2, ok)

\* feetech.disable_torque(sid) for one servo id.
disable_torque(m, sid, ok) == ft_write(m, "disable_torque", sid, 0, ok)

\* feetech.disable_torque([1, 2]): a sync write of 1 byte at
\* SMS_STS_TORQUE_ENABLE.
disable_torque_all(m, ok) ==
    ft_sync_write(m, "disable_torque", <<1, 2>>, "SMS_STS_TORQUE_ENABLE", 0, 1, ok)

\* feetech.set_position(sid, position, multi_turn_enable=True).
set_position(m, sid, position, ok) ==
    ft_write(m, "set_position", sid, position, ok)

\* feetech.connect(): a new PortHandler, openPort and setBaudRate; "ok"
\* leaves the port open and connected True, every other outcome ("open",
\* "baudrate": the step that failed, "raised": an exception caught inside)
\* returns False with the port closed.
connect(m, outcome) ==
    [Emit(m, Cmd("feetech", "connect", <<>>, <<>>))
        EXCEPT !.res = (outcome = "ok"),
               !.arm.connected = (m.arm.connected \/ outcome = "ok"),
               !.arm.portHandler = IF outcome = "ok" THEN "open" ELSE "closed"]

\* feetech.ping_servos(): the ids found, none while not connected.
ping_servos(m, found) ==
    IF ~m.arm.connected THEN LogError(m, "Not connected")
    ELSE Emit(m, Cmd("feetech", "ping_servos", <<>>, <<>>))

\* feetech.disconnect() inside the try of disconnect_controllers: with a
\* port handler, closePort() and connected = False; closePort() raising
\* leaves connected as it is (the exception is logged).
disconnect(m, raises) ==
    IF m.arm.portHandler = "None" THEN m
    ELSE IF raises
    THEN LogError(Emit(m, Cmd("feetech", "disconnect", <<>>, <<>>)),
                  "Error disconnecting Feetech")
    ELSE [Emit(m, Cmd("feetech", "disconnect", <<>>, <<>>))
             EXCEPT !.arm.connected = FALSE, !.arm.portHandler = "closed"]

\* ho.stop_controller() inside the try of disconnect_controllers.
stop_controller(m, raises) ==
    IF raises
    THEN LogError(Emit(m, Cmd("ho", "stop_controller", <<>>, <<>>)),
                  "Error stopping HO8110 controller")
    ELSE [Emit(m, Cmd("ho", "stop_controller", <<>>, <<>>))
             EXCEPT !.arm.ho_started = FALSE]

\* disconnect_controllers(): both disconnections, each in its own try, then
\* is_running = False.
disconnect_controllers(m, ft_raises, ho_raises) ==
    [stop_controller(disconnect(m, ft_raises), ho_raises)
        EXCEPT !.arm.is_running = FALSE]

\* ------------------------------------------------------------------------
\* FeetechController: its public methods
\* ------------------------------------------------------------------------

\* FeetechController.__init__: not connected, no port handler, no servo
\* found and no sync write made.
FeetechController ==
    [connected |-> FALSE,
     portHandler |-> "None",
     found_servos |-> <<>>,
     last_sync_write |-> NoSyncWrite]

\* A servo_id argument: an int, or a list of ids.
OneId(sid) == [int |-> TRUE, ids |-> <<sid>>]

IdList(ids) == [int |-> FALSE, ids |-> ids]

\* The values the read methods return: None, a dict keyed by the servos
\* that answered, and the value read from one servo.
None == [py |-> "None"]

Dict(keys) == [py |-> "dict", keys |-> keys]

Value(what) == [py |-> what]

\* "if not self.connected: logger.error(...); return failure", the first
\* statement of every public method.
not_connected(m, failure) ==
    [LogError(m, "Not connected") EXCEPT !.res = failure]

\* A value out of its range: the error is logged and False returned.
invalid_value(m, msg) == [LogError(m, msg) EXCEPT !.res = FALSE]

\* A write of one register: the individual write when the method takes the
\* single-servo branch, else the sync write to the listed servos.
ft_write_any(m, cmd, servo_id, single, address, value, data_length, ok) ==
    IF single
    THEN ft_write(m, cmd, servo_id.ids[1], value, ok)
    ELSE ft_sync_write(m, cmd, servo_id.ids, address, value, data_length, ok)

\* enable_torque(servo_id): an int takes the individual write, any list the
\* sync write of 1 byte at SMS_STS_TORQUE_ENABLE.
enable_torque(m, servo_id, ok) ==
    ft_write_any(m, "enable_torque", servo_id, servo_id.int,
                 "SMS_STS_TORQUE_ENABLE", 1, 1, ok)

\* disable_torque(servo_id), an int or a list.
FeetechController_disable_torque(m, servo_id, ok) ==
    ft_write_any(m, "disable_torque", servo_id, servo_id.int,
                 "SMS_STS_TORQUE_ENABLE", 0, 1, ok)

\* change_mode(servo_id, mode): mode in 0..3; one servo (an int or a list of
\* one id) takes the individual write.
change_mode(m, servo_id, mode, ok) ==
    IF m.arm.connected /\ (mode < 0 \/ mode > 3)
    THEN invalid_value(m, "Invalid mode")
    ELSE ft_write_any(m, "change_mode", servo_id, Len(servo_id.ids) = 1,
                      "SMS_STS_MODE", mode, 1, ok)

\* set_acceleration(servo_id, acceleration): acceleration in 0..254.
set_acceleration(m, servo_id, acceleration, ok) ==
    IF m.arm.connected /\ (acceleration < 0 \/ acceleration > 254)
    THEN invalid_value(m, "Invalid acceleration")
    ELSE ft_write_any(m, "set_acceleration", servo_id, Len(servo_id.ids) = 1,
                      "SMS_STS_ACC", acceleration, 1, ok)

\* set_position(servo_id, position, multi_turn_enable): position in 0..4095
\* unless multi_turn_enable.
FeetechController_set_position(m, servo_id, position, multi_turn_enable, ok) ==
    IF m.arm.connected /\ (position < 0 \/ position > 4095) /\ ~multi_turn_enable
    THEN invalid_value(m, "Invalid position")
    ELSE ft_write_any(m, "set_position", servo_id, Len(servo_id.ids) = 1,
                      "SMS_STS_GOAL_POSITION_L", position, 2, ok)

\* The conversion of a speed: a negative value s becomes abs(s) + 32768.
converted_speed(s) == IF s < 0 THEN (0 - s) + 32768 ELSE s

\* set_speed(servo_id, speed) with one int speed for all the servos: the
\* converted values are all equal, so a list of servos takes the sync write.
FeetechController_set_speed(m, servo_id, speed, ok) ==
    ft_write_any(m, "set_speed", servo_id, Len(servo_id.ids) = 1,
                 "SMS_STS_GOAL_SPEED_L", converted_speed(speed), 2, ok)

\* set_torque_limit(servo_id, torque_limit): torque_limit in 0..1000, 2
\* bytes at address 48.
set_torque_limit(m, servo_id, torque_limit, ok) ==
    IF m.arm.connected /\ (torque_limit < 0 \/ torque_limit > 1000)
    THEN invalid_value(m, "Invalid torque limit")
    ELSE ft_write_any(m, "set_torque_limit", servo_id, Len(servo_id.ids) = 1,
                      "48", torque_limit, 2, ok)

\* ping_servos() as a public method: the ids 0..30 are pinged, the ids that
\* answered are kept in found_servos and returned.
FeetechController_ping_servos(m, found) ==
    IF ~m.arm.connected THEN not_connected(m, <<>>)
    ELSE [Emit(m, Cmd("feetech", "ping", <<>>, <<>>))
             EXCEPT !.res = found, !.arm.found_servos = found]

\* found_servos.remove(current_id) when it is in the list: its first
\* occurrence is taken out.
remove(list, x) ==
    IF \A k \in 1..Len(list) : list[k] # x THEN list
    ELSE SubSeq(list, 1, (CHOOSE k \in 1..Len(list) :
                             list[k] = x /\ \A j \in 1..(k - 1) : list[j] # x) - 1)
         \o SubSeq(list, (CHOOSE k \in 1..Len(list) :
                             list[k] = x /\ \A j \in 1..(k - 1) : list[j] # x) + 1,
                   Len(list))

\* The packets of change_id up to the step that failed: unLockEprom, the
\* write of the id, LockEprom and the ping of the new id.
change_id_steps(current_id, new_id, failed) ==
    SubSeq(<<Cmd("feetech", "unLockEprom", <<current_id>>, <<>>),
             Cmd("feetech", "write_id", <<current_id>>, <<new_id>>),
             Cmd("feetech", "LockEprom", <<new_id>>, <<>>),
             Cmd("feetech", "ping", <<new_id>>, <<>>)>>,
           1,
           IF failed = "unlock" THEN 1
           ELSE IF failed = "write" THEN 2
           ELSE IF failed = "lock" THEN 3
           ELSE 4)

\* change_id(current_id, new_id): new_id in 0..253; the four steps, each
\* returning False when it fails; after the ping answered, found_servos
\* holds new_id in place of current_id.
change_id(m, current_id, new_id, failed) ==
    IF ~m.arm.connected THEN not_connected(m, FALSE)
    ELSE IF new_id < 0 \/ new_id > 253 THEN invalid_value(m, "Invalid new ID")
    ELSE IF failed # "none"
    THEN [LogError(m, failed)
             EXCEPT !.wire = @ \o change_id_steps(current_id, new_id, failed),
                    !.res = FALSE]
    ELSE [m EXCEPT !.wire = @ \o change_id_steps(current_id, new_id, failed),
                   !.res = TRUE,
                   !.arm.found_servos =
                       Append(remove(m.arm.found_servos, current_id), new_id)]

\* set_zero_offset(servo_id, offset): reOfsCal on every listed servo; True
\* when each of them succeeded (good: the servos that do).
set_zero_offset(m, servo_id, offset, good) ==
    IF ~m.arm.connected THEN not_connected(m, FALSE)
    ELSE [m EXCEPT
            !.wire = @ \o [k \in 1..Len(servo_id.ids) |->
                             Cmd("feetech", "reOfsCal", <<servo_id.ids[k]>>, <<offset>>)],
            !.res = \A k \in 1..Len(servo_id.ids) : servo_id.ids[k] \in good]

\* sync_read_parameters(servo_ids, address, data_length): {} while not
\* connected, for no servo and when txRxPacket fails (ok is then False);
\* else the data of the servos that answered.
sync_read_parameters(m, servo_ids, address, data_length, ok, answered) ==
    IF ~m.arm.connected THEN not_connected(m, Dict({}))
    ELSE IF servo_ids = <<>> THEN [m EXCEPT !.res = Dict({})]
    ELSE [Emit(m, Cmd("feetech", "sync_read", servo_ids, <<address, data_length>>))
             EXCEPT !.res = IF ~ok THEN Dict({})
                             ELSE Dict({servo_ids[k] : k \in 1..Len(servo_ids)}
                                          \cap answered)]

\* results if results else None.
or_None(m) == IF m.res = Dict({}) THEN [m EXCEPT !.res = None] ELSE m

\* read_mode(servo_id): None while not connected; one servo is read by
\* read1ByteTxRx, several by sync_read_parameters, an empty result becoming
\* None.
read_mode(m, servo_id, ok, answered) ==
    IF ~m.arm.connected THEN not_connected(m, None)
    ELSE IF Len(servo_id.ids) = 1
    THEN [Emit(m, Cmd("feetech", "read_mode", servo_id.ids, <<>>))
             EXCEPT !.res = IF ok /\ servo_id.ids[1] \in answered
                             THEN Value("mode") ELSE None]
    ELSE or_None(sync_read_parameters(m, servo_id.ids, "SMS_STS_MODE", 1,
                                      ok, answered))

\* sync_write_positions(servo_positions, speed, acc, torque): False while
\* not connected and for no servo; else one packet written through the
\* packet handler's own group.
sync_write_positions(m, servo_positions, ok) ==
    IF ~m.arm.connected THEN not_connected(m, FALSE)
    ELSE IF servo_positions = <<>> THEN [m EXCEPT !.res = FALSE]
    ELSE [Emit(m, Cmd("feetech", "SyncWritePosEx", <<>>, servo_positions))
             EXCEPT !.res = ok]

\* individual_write_position(servo_id, position, speed, acc, torque).
individual_write_position(m, sid, position, ok) ==
    IF ~m.arm.connected THEN not_connected(m, FALSE)
    ELSE [Emit(m, Cmd("feetech", "WritePosEx", <<sid>>, <<position>>))
             EXCEPT !.res = ok]

\* read_servo_state(servo_id): None while not connected; an int is read by
\* ReadPosSpeed, (position, speed) or None; a list by sync_read_posspeed, 6
\* bytes at SMS_STS_PRESENT_POSITION_L.
read_servo_state(m, servo_id, ok, answered) ==
    IF ~m.arm.connected THEN not_connected(m, None)
    ELSE IF servo_id.int
    THEN [Emit(m, Cmd("feetech", "ReadPosSpeed", servo_id.ids, <<>>))
             EXCEPT !.res = IF ok /\ servo_id.ids[1] \in answered
                             THEN Value("(position, speed)") ELSE None]
    ELSE sync_read_parameters(m, servo_id.ids, "SMS_STS_PRESENT_POSITION_L", 6,
                              ok, answered)

\* disconnect() as a public method: with a port handler, closePort() and
\* connected = False; an exception of closePort() leaves the method before
\* the assignment.
FeetechController_disconnect(m, raises) ==
    IF m.arm.portHandler = "None" THEN [m EXCEPT !.res = None]
    ELSE IF raises
    THEN [Emit(m, Cmd("feetech", "closePort", <<>>, <<>>)) EXCEPT !.exc = "Exception"]
    ELSE [Emit(m, Cmd("feetech", "closePort", <<>>, <<>>))
             EXCEPT !.res = None,
                    !.arm.connected = FALSE, !.arm.portHandler = "closed"]

\* ------------------------------------------------------------------------
\* ThrowingArmController
\* ------------------------------------------------------------------------

\* A failed check of start(): disconnect_controllers(), then raise
\* Exception(msg).
start_failed(m, e, msg) ==
    [disconnect_controllers(m, e.ft_close_raises, e.ho_stop_raises)
        EXCEPT !.exc = msg]

\* reset_speed().
reset_speed(m, ok) ==
    ho_call(set_speed(set_speed(m, 1, 1000, ok), 2, 1000, ok),
            "broadcast_speed", <<>>, <<HO_DEFAULT_SPEED>>)

\* The end of start() once the four checks passed: is_running = True, the
\* default speeds, the HO8110 motors disabled, the Feetech torque released,
\* and return True.
start_checked(m, e) ==
    disable_torque_all(
        ho_call(reset_speed([m EXCEPT !.arm.is_running = TRUE], e.ok),
                "broadcast_enable", <<>>, <<0>>),
        e.ok)

\* start() from the ping of the Feetech servos on.
start_pinged(m, e) ==
    IF e.ft_ids # {1, 2}
    THEN start_failed(m, e, "Feetech servos 1 and 2 not found")
    ELSE start_checked(m, e)

\* start() from the connection of the Feetech port on.
start_connected(m, e) ==
    IF ~m.res
    THEN start_failed(m, e, "Feetech servos not connected")
    ELSE start_pinged(ping_servos(m, e.ft_ids), e)

\* Variant of start() that does not look at what ho.are_online() reports.
start_online_unchecked(m, e) == start_connected(connect(m, e.ft_connect), e)

\* start() from the check of the motors online on.
start_online(m, e) ==
    IF e.online # {1, 2, 3}
    THEN start_failed(m, e, "H08110 motors 1, 2 and 3 not found or not online")
    ELSE start_connected(connect(m, e.ft_connect), e)

\* start() from the answer of ho.start_controller() on.
start_started(m, e) ==
    IF ~e.ho_start
    THEN start_failed(m, e, "H08110 motors not connected")
    ELSE start_online(Emit(m, Cmd("ho", "are_online", <<>>, <<>>)), e)

\* start(): the HO8110 controller, its motors, the Feetech port and its
\* servos are checked in this order; e holds what the hardware answers.
start(c, e) ==
    start_started(
        [Emit(Running(c), Cmd("ho", "start_controller", <<>>, <<>>))
            EXCEPT !.arm.ho_started = e.ho_start],
        e)

\* What the hardware may answer during start(): ho.start_controller(), the
\* motors ho.are_online() reports, feetech.connect(), the ids
\* feetech.ping_servos() finds, whether the two disconnections raise and
\* whether the Feetech writes succeed.
StartAnswers ==
    [ho_start : BOOLEAN,
     online : {{1, 2, 3}, {1, 3}},
     ft_connect : {"ok", "open", "baudrate", "raised"},
     ft_ids : {{1, 2}, {1}, {1, 2, 3}},
     ft_close_raises : BOOLEAN,
     ho_stop_raises : BOOLEAN,
     ok : BOOLEAN]

\* Variant of the count of loops of servo 1 that rounds toward zero.
count_loops_1_truncating(m, pos1) ==
    IF m.exc = "none" /\ m.res
    THEN [m EXCEPT !.arm.loop_counter_1 =
                       IF pos1 < 0 THEN 0 - ((0 - pos1) \div 4096)
                       ELSE pos1 \div 4096]
    ELSE m

\* self.loop_counter_1 = pos1 // 4096 after a set_position that returned
\* True.
count_loops_1(m, pos1) ==
    IF m.exc = "none" /\ m.res
    THEN [m EXCEPT !.arm.loop_counter_1 = pos1 \div 4096]
    ELSE m

\* self.loop_counter_2 = pos2 // 4096 after a set_position that returned
\* True.
count_loops_2(m, pos2) ==
    IF m.exc = "none" /\ m.res
    THEN [m EXCEPT !.arm.loop_counter_2 = pos2 \div 4096]
    ELSE m

\* set_feetech_position(pos1, pos2); an argument is <<p>> for a position p
\* and <<>> for None.  Both given: both servos are commanded, from their home
\* positions.  Only pos1 given: servo 1 is commanded.  The third test, "pos2
\* is not None and pos2 is None", never holds, so only pos2 given commands
\* nothing.
set_feetech_position(m, pos1, pos2, ok1, ok2) ==
    IF m.exc # "none" THEN m
    ELSE IF pos1 # <<>> /\ pos2 # <<>>
    THEN count_loops_2(
             set_position(
                 count_loops_1(
                     set_position(m, 1, pos1[1] + m.arm.home_position_feetech[1], ok1),
                     pos1[1] + m.arm.home_position_feetech[1]),
                 2, pos2[1] + m.arm.home_position_feetech[2], ok2),
             pos2[1] + m.arm.home_position_feetech[2])
    ELSE IF pos1 # <<>> /\ pos2 = <<>>
    THEN count_loops_1(
             set_position(m, 1, pos1[1] + m.arm.home_position_feetech[1], ok1),
             pos1[1] + m.arm.home_position_feetech[1])
    ELSE m

\* read_feetech_position(): read_servo_state(1)[0] and
\* read_servo_state(2)[0], each raised by the loops counted for its servo and
\* taken from its home position.  r1 and r2 are what the servos report:
\* <<raw>> for a position, <<>> for a failed read.  read_servo_state
\* returns None while not connected or when the read fails, and None[0]
\* raises TypeError.
read_feetech_position(m, r1, r2) ==
    IF m.exc # "none" THEN m
    ELSE IF ~m.arm.connected THEN [m EXCEPT !.exc = "TypeError"]
    ELSE IF r1 = <<>>
    THEN [Emit(m, Cmd("feetech", "read_servo_state", <<1>>, <<>>))
             EXCEPT !.exc = "TypeError"]
    ELSE IF r2 = <<>>
    THEN [Emit(Emit(m, Cmd("feetech", "read_servo_state", <<1>>, <<>>)),
               Cmd("feetech", "read_servo_state", <<2>>, <<>>))
             EXCEPT !.exc = "TypeError"]
    ELSE [Emit(Emit(m, Cmd("feetech", "read_servo_state", <<1>>, <<>>)),
               Cmd("feetech", "read_servo_state", <<2>>, <<>>))
             EXCEPT !.res = << r1[1] + m.arm.loop_counter_1 * 4096
                                  - m.arm.home_position_feetech[1],
                               r2[1] + m.arm.loop_counter_2 * 4096
                                  - m.arm.home_position_feetech[2] >>]

\* safe_stop(): the HO8110 motors to their home positions, the Feetech
\* servos to theirs, then the torque of each servo released; the HO8110 call
\* may raise.
safe_stop(m, e) ==
    IF e.safe_stop_raises
    THEN [Emit(m, Cmd("ho", "batch_position", <<1, 2, 3>>, m.arm.home_position_ho))
             EXCEPT !.exc = "Exception"]
    ELSE disable_torque(
             disable_torque(
                 set_feetech_position(
                     ho_call(m, "batch_position", <<1, 2, 3>>, m.arm.home_position_ho),
                     <<0>>, <<0>>, e.ok1, e.ok2),
                 1, e.ok1),
             2, e.ok2)

\* The except clause of stop(): the exception of safe_stop() is logged and
\* dropped.
caught(m) ==
    IF m.exc = "none" THEN m
    ELSE [LogError(m, "Error during safe stop") EXCEPT !.exc = "none"]

\* stop() on a call in progress: safe_stop() in a try, then
\* disconnect_controllers() and is_running = False.
stop_from(m, e) ==
    IF m.exc # "none" THEN m
    ELSE [disconnect_controllers(caught(safe_stop(m, e)),
                                 e.ft_close_raises, e.ho_stop_raises)
             EXCEPT !.arm.is_running = FALSE]

\* stop().
stop(c, e) == stop_from(Running(c), e)

\* set_home() from the Feetech reads on: read_servo_state(sid) is None
\* while not connected or when the read fails, and None[0] raises TypeError;
\* else the positions read become the home positions.
set_home_read(m, e) ==
    IF ~m.arm.connected \/ e.ft_read = <<>>
    THEN [m EXCEPT !.exc = "TypeError"]
    ELSE [Emit(Emit(m, Cmd("feetech", "read_servo_state", <<1, 2>>, <<>>)),
               Cmd("ho", "get_all_feedback", <<>>, <<>>))
             EXCEPT !.arm.home_position_feetech = e.ft_read,
                    !.arm.home_position_ho = e.ho_read]

\* set_home(): a small current on the HO8110 motors for two seconds, then
\* the positions of all motors are read and kept as home positions.
set_home(c, e) ==
    set_home_read(
        ho_call(ho_call(ho_call(Running(c),
                                "broadcast_current", <<>>, <<100>>),
                        "broadcast_enable", <<>>, <<1>>),
                "broadcast_enable", <<>>, <<0>>),
        e)

\* The first argument of throwing() that is out of its range, as the error
\* logged for it, or "none": stop_pos in [0, 200], ahead_pos in [-200, 0],
\* throwback_pos in [0, 200], init_position in [0, FT_MAX_PULLBACK] and
\* end_position in [0, init_position].
invalid_argument(stop_pos, ahead_pos, throwback_pos, init_position, end_position) ==
    IF stop_pos < 0 \/ stop_pos > 200
    THEN "stop_pos must be between 0 and 200 degrees"
    ELSE IF ahead_pos > 0 \/ ahead_pos < 0 - 200
    THEN "ahead_pos must be between 0 and -200 degrees"
    ELSE IF throwback_pos < 0 \/ throwback_pos > 200
    THEN "throwback_pos must be between 0 and 200 degrees"
    ELSE IF init_position < 0 \/ init_position > FT_MAX_PULLBACK
    THEN "init_position must be between 0 and FT_MAX_PULLBACK"
    ELSE IF end_position < 0 \/ end_position > init_position
    THEN "end_position must be between 0 and init_position"
    ELSE "none"

\* throwing(), steps 8 and 9: the default speeds, every motor back to its
\* home position, the HO8110 motors disabled and the Feetech torque
\* released.
throw_home(m, e) ==
    disable_torque_all(
        ho_call(
            set_feetech_position(
                ho_call(reset_speed(m, e.ok1),
                        "batch_position", <<1, 2, 3>>, m.arm.home_position_ho),
                <<0>>, <<0>>, e.ok1, e.ok2),
            "broadcast_enable", <<>>, <<0>>),
        e.ok1)

\* throwing(), step 7 on: HO 2 flings back, then the return home.
throw_back(m, a, e) ==
    throw_home(ho_call(m, "set_position", <<2>>, <<a[3]>>), e)

\* Variant of the wait for the end of the throw that logs the timeout and
\* leaves the loop without calling stop().
throw_wait_unstopped(m, a, e) ==
    IF m.exc # "none" THEN m
    ELSE IF e.reads2 > 700
    THEN throw_back(
             LogError(Emit(m, Cmd("ho", "get_feedback", <<2>>, <<701>>)),
                      "Timeout waiting for end of throw"),
             a, e)
    ELSE throw_back(Emit(m, Cmd("ho", "get_feedback", <<2>>, <<e.reads2>>)), a, e)

\* throwing(), the wait for the end of the throw: e.reads2 reads of the
\* position of HO 2; past 700 reads the timeout is logged, stop() is called
\* and the loop is left by break, so that step 7 follows in either case.
throw_wait(m, a, e) ==
    IF m.exc # "none" THEN m
    ELSE IF e.reads2 > 700
    THEN throw_back(
             stop_from(LogError(Emit(m, Cmd("ho", "get_feedback", <<2>>, <<701>>)),
                                "Timeout waiting for end of throw"), e),
             a, e)
    ELSE throw_back(Emit(m, Cmd("ho", "get_feedback", <<2>>, <<e.reads2>>)), a, e)

\* throwing(), steps 4 to 6: HO 2 locked 10 past its position, the Feetech
\* servos unwound to end_position, HO 1 and 3 thrown to stop_pos with HO 2
\* following to ahead_pos.
throw_release(m, a, e) ==
    throw_wait(
        ho_call(
            set_feetech_position(
                set_speed(set_speed(ho_call(m, "set_position", <<2>>, <<e.fb + 10>>),
                                    1, FT_PULLBACK_SPEED, e.ok1),
                          2, FT_PULLBACK_SPEED, e.ok1),
                <<a[5]>>, <<a[5]>>, e.ok1, e.ok2),
            "batch_position", <<1, 2, 3>>, <<a[1], a[2], a[1]>>),
        a, e)

\* throwing(), the wait for the feedback of HO 2: e.reads1 reads until a
\* position is read; past 50 reads the timeout is logged, stop() is called
\* and throwing() returns.
throw_lock(m, a, e) ==
    IF m.exc # "none" THEN m
    ELSE IF e.reads1 > 50
    THEN stop_from(LogError(Emit(m, Cmd("ho", "get_feedback", <<2>>, <<51>>)),
                            "Timeout waiting for HO8110 motor 2 feedback"), e)
    ELSE throw_release(Emit(m, Cmd("ho", "get_feedback", <<2>>, <<e.reads1>>)), a, e)

\* throwing(), steps 1 to 3: the HO8110 motors disabled, the pull-back speed
\* and a small current set, the Feetech servos pulled back to
\* init_position, the HO8110 motors enabled, and the operator's ENTER.
throw_arm(m, a, e) ==
    throw_lock(
        ho_call(
            set_feetech_position(
                ho_call(set_speed_all(ho_call(m, "broadcast_enable", <<>>, <<0>>),
                                      FT_PULLBACK_SPEED, e.ok1),
                        "broadcast_current", <<>>, <<100>>),
                <<a[4]>>, <<a[4]>>, e.ok1, e.ok2),
            "broadcast_enable", <<>>, <<1>>),
        a, e)

\* Variant of throwing() that arms whatever the arguments are.
throwing_unchecked(c, a, e) == throw_arm(Running(c), a, e)

\* throwing(stop_pos, ahead_pos, throwback_pos, init_position,
\* end_position), a the five arguments in this order: an argument out of
\* its range is logged and the call returns; else the throw is run.
throwing(c, a, e) ==
    IF invalid_argument(a[1], a[2], a[3], a[4], a[5]) # "none"
    THEN LogError(Running(c), invalid_argument(a[1], a[2], a[3], a[4], a[5]))
    ELSE throw_arm(Running(c), a, e)

\* ------------------------------------------------------------------------
\* State
\* ------------------------------------------------------------------------

VARIABLES
    n_steps,        \* n_steps of generate_lookup_table
    npy,            \* the file workspace_map.npy
    csv,            \* the file workspace_map.csv
    engine,         \* "ready" once a Kinematic is constructed, else "none"
    lookup_table,   \* self.lookup_table
    tree,           \* self.tree
    table_src,      \* what set self.lookup_table: "none", "load" or "sampler"
    evals,          \* the tension vectors the last sampler run evaluated
    ret,            \* the last call: its name, its argument and its outcome
    arm,            \* the ThrowingArmController and its two controllers
    wire            \* the calls the last call made on the hardware, in order

vars == <<n_steps, npy, csv, engine, lookup_table, tree, table_src, evals, ret,
          arm, wire>>

\* The files workspace_map.npy may hold before the program starts: none,
\* bytes that are no array, an array of no row, the table an earlier run
\* saved with n steps, or the one-row table of a run with a single step.
InitialFiles(n) ==
    {AbsentFile, GarbageFile, np_save(<<>>),
     np_save(GeneratedTable(1)), np_save(GeneratedTable(n))}

NoCall == [op |-> "none", arg |-> <<>>, out |-> [kind |-> "none"]]

Init ==
    /\ n_steps \in 1..MaxSteps
    /\ npy \in InitialFiles(n_steps)
    /\ csv = AbsentFile
    /\ engine = "none"
    /\ lookup_table = <<>>
    /\ tree = cKDTree(<<>>)
    /\ table_src = "none"
    /\ evals = {}
    /\ ret = NoCall
    /\ arm = ThrowingArmController
    /\ wire = <<>>

\* ------------------------------------------------------------------------
\* Operations
\* ------------------------------------------------------------------------

\* Variant of the tail of generate_lookup_table() that writes the text
\* export before the binary file.
store_table_text_first(table, old_npy, old_csv, old_tree, fault, cut) ==
    [lookup_table |-> table,
     npy  |-> IF fault \in {"npy_open", "csv_open", "csv_write"} THEN old_npy
              ELSE IF fault = "npy_write" THEN np_save_cut(table, cut)
              ELSE np_save(table),
     csv  |-> IF fault = "csv_open" THEN old_csv
              ELSE IF fault = "csv_write" THEN np_savetxt_cut(table, cut)
              ELSE np_savetxt(table),
     tree |-> IF fault = "none" THEN cKDTree(positions_only(table))
              ELSE old_tree,
     raised |-> fault # "none"]

\* Variant of the tail of generate_lookup_table() that ends after the saves
\* and leaves the index as it was.
store_table_keeping_index(table, old_npy, old_csv, old_tree, fault, cut) ==
    [lookup_table |-> table,
     npy  |-> IF fault = "npy_open" THEN old_npy
              ELSE IF fault = "npy_write" THEN np_save_cut(table, cut)
              ELSE np_save(table),
     csv  |-> IF fault \in {"npy_open", "npy_write", "csv_open"} THEN old_csv
              ELSE IF fault = "csv_write" THEN np_savetxt_cut(table, cut)
              ELSE np_savetxt(table),
     tree |-> old_tree,
     raised |-> fault # "none"]

\* The tail of generate_lookup_table() once workspace_map is built:
\* self.lookup_table = np.array(workspace_map), then np.save, then
\* np.savetxt, then the index is rebuilt; an error raised by a save leaves
\* the later steps undone.
store_table(table, old_npy, old_csv, old_tree, fault, cut) ==
    [lookup_table |-> table,
     npy  |-> IF fault = "npy_open" THEN old_npy
              ELSE IF fault = "npy_write" THEN np_save_cut(table, cut)
              ELSE np_save(table),
     csv  |-> IF fault \in {"npy_open", "npy_write", "csv_open"} THEN old_csv
              ELSE IF fault = "csv_write" THEN np_savetxt_cut(table, cut)
              ELSE np_savetxt(table),
     tree |-> IF fault = "none" THEN cKDTree(positions_only(table))
              ELSE old_tree,
     raised |-> fault # "none"]

\* generate_lookup_table(): the sampler's table, then the saves and the
\* index.
generate_lookup_table(n, old_npy, old_csv, old_tree, fault, cut) ==
    store_table(GeneratedTable(n), old_npy, old_csv, old_tree, fault, cut)

\* The except branch of __init__ once generate_lookup_table() has ended as
\* g: an error raised by its saves leaves __init__ and no object is
\* constructed; else the index is built from self.lookup_table.
init_fallback(g, fault) ==
    IF g.raised
    THEN [engine |-> "none", lookup_table |-> <<>>,
          tree |-> cKDTree(<<>>),
          npy |-> g.npy, csv |-> g.csv, src |-> "none",
          out |-> [kind |-> "OSError", load |-> "failed",
                   sampled |-> TRUE, fault |-> fault]]
    ELSE [engine |-> "ready", lookup_table |-> g.lookup_table,
          tree |-> cKDTree(positions_only(g.lookup_table)),
          npy |-> g.npy, csv |-> g.csv, src |-> "sampler",
          out |-> [kind |-> "ok", load |-> "failed",
                   sampled |-> TRUE, fault |-> "none"]]

\* Variant of __init__ that generates the table whether or not the load
\* succeeded.
Kinematic_init_regenerating(n, old_npy, old_csv, fault, cut) ==
    init_fallback(generate_lookup_table(n, old_npy, old_csv, cKDTree(<<>>),
                                        fault, cut),
                  fault)

\* Kinematic.__init__(): try np.load; on any exception generate the table;
\* then build the index from self.lookup_table.
Kinematic_init(n, old_npy, old_csv, fault, cut) ==
    IF np_load_ok(old_npy)
    THEN [engine |-> "ready", lookup_table |-> np_load(old_npy),
          tree |-> cKDTree(positions_only(np_load(old_npy))),
          npy |-> old_npy, csv |-> old_csv, src |-> "load",
          out |-> [kind |-> "ok", load |-> "ok", sampled |-> FALSE,
                   fault |-> "none"]]
    ELSE init_fallback(generate_lookup_table(n, old_npy, old_csv,
                                             cKDTree(<<>>), fault, cut),
                       fault)

\* The state after a construction that ended as k.
Constructed(k) ==
    /\ engine' = k.engine
    /\ lookup_table' = k.lookup_table
    /\ tree' = k.tree
    /\ npy' = k.npy
    /\ csv' = k.csv
    /\ table_src' = k.src
    /\ evals' = IF k.out.sampled THEN sampler_calls(n_steps) ELSE evals
    /\ ret' = [op |-> "__init__", arg |-> <<>>, out |-> k.out]

\* kinematic = Kinematic() at the start of a run of the program: what an
\* earlier run left in memory is gone, the files are as it left them.
Construct ==
    /\ \E fault \in Faults :
         \E cut \in Cuts(n_steps) :
           Constructed(Kinematic_init(n_steps, npy, csv, fault, cut))
    /\ UNCHANGED <<n_steps, arm, wire>>

\* The state after a regeneration that ended as g.
Regenerated(g, fault) ==
    /\ lookup_table' = g.lookup_table
    /\ tree' = g.tree
    /\ npy' = g.npy
    /\ csv' = g.csv
    /\ table_src' = "sampler"
    /\ evals' = sampler_calls(n_steps)
    /\ ret' = [op |-> "generate_lookup_table", arg |-> <<>>,
               out |-> [kind |-> IF g.raised THEN "OSError" ELSE "ok",
                        fault |-> fault]]

\* kinematic.generate_lookup_table(): an explicit regeneration.
Regenerate ==
    /\ engine = "ready"
    /\ \E fault \in Faults :
         \E cut \in Cuts(n_steps) :
           Regenerated(generate_lookup_table(n_steps, npy, csv, tree,
                                             fault, cut), fault)
    /\ UNCHANGED <<n_steps, engine, arm, wire>>

\* kinematic.inverse_kinematic(target).
Query ==
    /\ engine = "ready"
    /\ \E target \in Targets(lookup_table, tree) :
         \E answer \in tree_query(tree, target) :
           ret' = [op |-> "inverse_kinematic", arg |-> target,
                   out |-> inverse_kinematic(lookup_table, answer)]
    /\ UNCHANGED <<n_steps, npy, csv, engine, lookup_table, tree, table_src, evals,
                 arm, wire>>

\* Variant of the forward call: the call also appends its tip and the
\* tensions of the last section to self.lookup_table.
ForwardRecording ==
    /\ engine = "ready"
    /\ \E tensions \in FKInputs :
         /\ ret' = [op |-> "soft_arm_pcc", arg |-> tensions, out |-> FKTable[tensions]]
         /\ lookup_table' =
               IF FKTable[tensions].kind = "ok" /\ Len(lookup_table) < 2
               THEN Append(lookup_table,
                           RowOf(TipPos(FKTable[tensions].positions),
                                 tensions[7], tensions[8], tensions[9]))
               ELSE lookup_table
    /\ UNCHANGED <<n_steps, npy, csv, engine, tree, table_src, evals, arm, wire>>

\* kinematic.soft_arm_pcc(tensions).
Forward ==
    /\ engine = "ready"
    /\ \E tensions \in FKInputs :
         ret' = [op |-> "soft_arm_pcc", arg |-> tensions, out |-> FKTable[tensions]]
    /\ UNCHANGED <<n_steps, npy, csv, engine, lookup_table, tree, table_src, evals,
                 arm, wire>>

Next == Construct \/ Regenerate \/ Query \/ Forward

Spec == Init /\ [][Next]_vars

\* ------------------------------------------------------------------------
\* The section transform and the forward kinematics as functions of their
\* arguments
\* ------------------------------------------------------------------------

\* Largest sample count n_pts handed to trans_mat_cc.
MaxPts == 3

\* The curvatures handed to trans_mat_cc, in 10^-4 1/m: zero, the smallest
\* magnitude of either sign, a small one, the test's 0.5 1/m and 2 1/m.
SectionKappas == {0, 1, 0 - 1, 100, 5000, 0 - 5000, 20000}

\* The bending-plane angles: 0, the test's pi/4, -pi/2 and pi.
SectionPhis == {0, 7854, 0 - 15708, 31416}

\* The arc lengths: the first section's and the test's 1.0 m.
SectionLengths == {3542, 10000}

\* The tolerances a caller passes, in 10^-6 1/m: 0, the default 1e-6 and
\* 1.5e-4.
SectionTols == {0, DefaultTol, 150}

\* The argument lists (kappa, phi, L, n_pts, tol) of the calls of
\* trans_mat_cc.
SectionCalls ==
    SectionKappas \X SectionPhis \X SectionLengths \X (1..MaxPts) \X SectionTols

\* The tensions of one section's three tendons in the calls of soft_arm_pcc.
ForwardTriples ==
    {<<0, 0, 0>>, <<20000, 0, 0>>, <<10000, 20000, 0>>, <<0, 500, 20000>>}

\* The tension vectors of the calls of soft_arm_pcc: every choice of the
\* triples above and the vector of test_soft_arm_pcc.
ForwardCalls ==
    {a \o b \o c : a \in ForwardTriples, b \in ForwardTriples, c \in ForwardTriples}
    \cup {<<500, 400, 600, 300, 200, 400, 200, 100, 300>>}

\* A call that has not returned yet.
Pending == [kind |-> "pending"]

\* What a call trans_mat_cc(kappa, phi, L, n_pts, tol) ends in: the frames
\* T, or the ZeroDivisionError of 1.0 / kappa.
section_call(a) ==
    IF ~IsStraight(a[1], a[5]) /\ a[1] = 0
    THEN [kind |-> "ZeroDivisionError"]
    ELSE [kind |-> "ok", T |-> trans_mat_cc(a[1], a[2], a[3], a[4], a[5])]

\* An engine constructed with no file on disk and one step, about to make
\* one call of trans_mat_cc or of soft_arm_pcc.
CallInit ==
    /\ n_steps = 1
    /\ npy = np_save(GeneratedTable(1))
    /\ csv = np_savetxt(GeneratedTable(1))
    /\ engine = "ready"
    /\ lookup_table = GeneratedTable(1)
    /\ tree = cKDTree(positions_only(GeneratedTable(1)))
    /\ table_src = "sampler"
    /\ evals = sampler_calls(1)
    /\ arm = ThrowingArmController
    /\ wire = <<>>
    /\ \/ \E a \in SectionCalls :
            ret = [op |-> "trans_mat_cc", arg |-> a, out |-> Pending]
       \/ \E tensions \in ForwardCalls :
            ret = [op |-> "soft_arm_pcc", arg |-> tensions, out |-> Pending]

\* kinematic.trans_mat_cc(kappa, phi, L, n_pts, tol) returns or raises.
SectionReturns ==
    /\ ret.op = "trans_mat_cc" /\ ret.out = Pending
    /\ ret' = [ret EXCEPT !.out = section_call(ret.arg)]
    /\ UNCHANGED <<n_steps, npy, csv, engine, lookup_table, tree, table_src, evals,
                 arm, wire>>

\* kinematic.soft_arm_pcc(tensions) returns.
ForwardReturns ==
    /\ ret.op = "soft_arm_pcc" /\ ret.out = Pending
    /\ ret' = [ret EXCEPT !.out = soft_arm_pcc(ret.arg)]
    /\ UNCHANGED <<n_steps, npy, csv, engine, lookup_table, tree, table_src, evals,
                 arm, wire>>

CallNext == SectionReturns \/ ForwardReturns

CallSpec == CallInit /\ [][CallNext]_vars

\* ------------------------------------------------------------------------
\* The throwing arm: start, home, throw and stop
\* ------------------------------------------------------------------------

\* throwing()'s default arguments (stop_pos, ahead_pos, throwback_pos,
\* init_position, end_position).
ThrowDefaults == <<150, 0 - 100, 100, 3000, 0>>

\* The argument lists throwing() is called with: the defaults, and the
\* defaults with one argument at an end of its range or just outside it.
ThrowCalls ==
    {ThrowDefaults}
    \cup {[ThrowDefaults EXCEPT ![1] = v] : v \in {0 - 1, 0, 200, 201}}
    \cup {[ThrowDefaults EXCEPT ![2] = v] : v \in {0 - 201, 0 - 200, 0, 1}}
    \cup {[ThrowDefaults EXCEPT ![3] = v] : v \in {0 - 1, 0, 200, 201}}
    \cup {[ThrowDefaults EXCEPT ![4] = v] : v \in {0 - 1, 0, FT_MAX_PULLBACK,
                                                   FT_MAX_PULLBACK + 1}}
    \cup {[ThrowDefaults EXCEPT ![5] = v] : v \in {0 - 1, 3000, 3001}}

\* What the hardware may answer during throwing() and stop(): the results
\* of the two set_position writes, the position of HO 2, the reads each wait
\* takes, and whether safe_stop() and the two disconnections raise.
ThrowAnswers ==
    [ok1 : BOOLEAN, ok2 : BOOLEAN, fb : {50},
     reads1 : {1, 50, 51}, reads2 : {700, 701},
     safe_stop_raises : BOOLEAN,
     ft_close_raises : BOOLEAN, ho_stop_raises : BOOLEAN]

\* What the hardware may answer during stop().
StopAnswers ==
    [ok1 : BOOLEAN, ok2 : BOOLEAN, safe_stop_raises : BOOLEAN,
     ft_close_raises : BOOLEAN, ho_stop_raises : BOOLEAN]

\* What the motors may report during set_home(): no answer of the Feetech
\* servos, or the positions of the two servos and of the three motors.
HomeAnswers ==
    [ft_read : {<<>>, <<0, 0>>, <<100, 4000>>},
     ho_read : {<<0, 0, 0>>, <<10, 20, 30>>}]

\* The state after a call op(arg) on the controller that ran as m: an
\* exception leaves the call, else the call returns value.
Called(op, arg, m, value) ==
    /\ arm' = m.arm
    /\ wire' = m.wire
    /\ ret' = [op |-> op, arg |-> arg,
               out |-> [kind |-> IF m.exc = "none" THEN "ok" ELSE "raised",
                        exc |-> m.exc, log |-> m.log,
                        value |-> IF m.exc = "none" THEN value ELSE "none"]]
    /\ UNCHANGED <<n_steps, npy, csv, engine, lookup_table, tree, table_src, evals>>

\* controller = ThrowingArmController(PORT_FEETECH, PORT_HO8110) with no
\* Kinematic engine constructed.
ArmInit ==
    /\ n_steps = 1
    /\ npy = AbsentFile
    /\ csv = AbsentFile
    /\ engine = "none"
    /\ lookup_table = <<>>
    /\ tree = cKDTree(<<>>)
    /\ table_src = "none"
    /\ evals = {}
    /\ ret = NoCall
    /\ arm = ThrowingArmController
    /\ wire = <<>>

\* controller.start(), on a controller that is not running; the call is
\* recorded with what the hardware answered.
Start ==
    /\ ~arm.is_running
    /\ \E e \in StartAnswers : Called("start", e, start(arm, e), "True")

\* controller.set_home(), on a running controller.
SetHome ==
    /\ arm.is_running
    /\ \E e \in HomeAnswers : Called("set_home", <<>>, set_home(arm, e), "None")

\* controller.throwing(...), on a running controller.
Throwing ==
    /\ arm.is_running
    /\ \E a \in ThrowCalls : \E e \in ThrowAnswers :
          Called("throwing", a, throwing(arm, a, e), "None")

\* controller.stop(), on a running controller.
Stop ==
    /\ arm.is_running
    /\ \E e \in StopAnswers : Called("stop", <<>>, stop(arm, e), "None")

ArmNext == Start \/ SetHome \/ Throwing \/ Stop

ArmSpec == ArmInit /\ [][ArmNext]_vars

\* ------------------------------------------------------------------------
\* The Feetech positions of a started controller
\* ------------------------------------------------------------------------

\* The answers of a start() whose four checks pass.
StartedAnswers ==
    [ok |-> TRUE, ft_close_raises |-> FALSE, ho_stop_raises |-> FALSE,
     ft_ids |-> {1, 2}, ft_connect |-> "ok", online |-> {1, 2, 3},
     ho_start |-> TRUE]

\* The positions the two servos may report to set_home().
HomeReads == {<<0, 0>>, <<100, 4000>>}

\* The arguments of set_feetech_position: None, or a position in steps
\* from home, negative, within a turn or past a turn.
OptionalPositions ==
    {<<>>, <<0 - 5000>>, <<0 - 4096>>, <<0 - 200>>, <<0>>, <<3000>>, <<4096>>, <<9000>>}

\* What a servo may report to read_feetech_position(): no answer, or the
\* single-turn position of a commanded position.
RawReads ==
    {<<>>} \cup {<<(p[1] + h[k]) % 4096>> :
                    p \in OptionalPositions \ {<<>>}, h \in HomeReads, k \in 1..2}

\* controller.start() passed and controller.set_home() read the positions
\* of the servos.
PositionInit ==
    /\ n_steps = 1
    /\ npy = AbsentFile
    /\ csv = AbsentFile
    /\ engine = "none"
    /\ lookup_table = <<>>
    /\ tree = cKDTree(<<>>)
    /\ table_src = "none"
    /\ evals = {}
    /\ ret = NoCall
    /\ \E h \in HomeReads :
          arm = set_home(start(ThrowingArmController, StartedAnswers).arm,
                         [ft_read |-> h, ho_read |-> <<0, 0, 0>>]).arm
    /\ wire = <<>>

\* controller.set_feetech_position(pos1, pos2); the call is recorded with
\* the results ok1 and ok2 of the two writes.
SetFeetechPosition ==
    \E pos1 \in OptionalPositions : \E pos2 \in OptionalPositions :
      \E ok1 \in BOOLEAN : \E ok2 \in BOOLEAN :
        Called("set_feetech_position", <<pos1, pos2, ok1, ok2>>,
               set_feetech_position(Running(arm), pos1, pos2, ok1, ok2), "None")

\* controller.read_feetech_position(); the call is recorded with what the
\* two servos reported.
ReadFeetechPosition ==
    \E r1 \in RawReads : \E r2 \in RawReads :
        Called("read_feetech_position", <<r1, r2>>,
               read_feetech_position(Running(arm), r1, r2),
               read_feetech_position(Running(arm), r1, r2).res)

PositionNext == SetFeetechPosition \/ ReadFeetechPosition

PositionSpec == PositionInit /\ [][PositionNext]_vars

\* ------------------------------------------------------------------------
\* The Feetech controller on its own: connect, disconnect and its public
\* methods in any order
\* ------------------------------------------------------------------------

\* The servo_id arguments of the calls: the int 1 and the lists [1] and
\* [1, 2].
ServoIds == {OneId(1), IdList(<<1>>), IdList(<<1, 2>>)}

\* What openPort and setBaudRate may do during connect(): both succeed,
\* openPort fails, setBaudRate fails, an exception is raised.
PortOutcomes == {"ok", "open", "baudrate", "raised"}

\* Longest found_servos list a change_id is called on: each successful
\* change_id appends an id.
MaxFound == 3

\* The servos that may answer a ping or a read.
Answering == {{}, {1}, {1, 2}}

\* controller = FeetechController(port_name, baudrate).
FeetechInit ==
    /\ n_steps = 1
    /\ npy = AbsentFile
    /\ csv = AbsentFile
    /\ engine = "none"
    /\ lookup_table = <<>>
    /\ tree = cKDTree(<<>>)
    /\ table_src = "none"
    /\ evals = {}
    /\ ret = NoCall
    /\ arm = FeetechController
    /\ wire = <<>>

\* The state after a call of a public method that ran as m and returned
\* m.res.
Answered(op, arg, m) == Called(op, arg, m, m.res)

Connect ==
    \E outcome \in PortOutcomes :
        Answered("connect", <<outcome>>, connect(Running(arm), outcome))

Disconnect ==
    \E raises \in BOOLEAN :
        Answered("disconnect", <<raises>>,
                 FeetechController_disconnect(Running(arm), raises))

PingServos ==
    \E found \in {<<>>, <<1, 2>>} :
        Answered("ping_servos", <<>>,
                 FeetechController_ping_servos(Running(arm), found))

ChangeId ==
    /\ Len(arm.found_servos) < MaxFound
    /\ \E new_id \in {2, 254} : \E failed \in {"none", "unlock", "verify"} :
        Answered("change_id", <<1, new_id>>,
                 change_id(Running(arm), 1, new_id, failed))

SetZeroOffset ==
    \E servo_id \in ServoIds : \E good \in Answering :
        Answered("set_zero_offset", <<servo_id, 1024>>,
                 set_zero_offset(Running(arm), servo_id, 1024, good))

ChangeMode ==
    \E servo_id \in ServoIds : \E mode \in {0, 4} : \E ok \in BOOLEAN :
        Answered("change_mode", <<servo_id, mode>>,
                 change_mode(Running(arm), servo_id, mode, ok))

ReadMode ==
    \E servo_id \in ServoIds : \E ok \in BOOLEAN : \E answered \in Answering :
        Answered("read_mode", <<servo_id>>,
                 read_mode(Running(arm), servo_id, ok, answered))

EnableTorque ==
    \E servo_id \in ServoIds : \E ok \in BOOLEAN :
        Answered("enable_torque", <<servo_id>>,
                 enable_torque(Running(arm), servo_id, ok))

DisableTorque ==
    \E servo_id \in ServoIds : \E ok \in BOOLEAN :
        Answered("disable_torque", <<servo_id>>,
                 FeetechController_disable_torque(Running(arm), servo_id, ok))

SetAcceleration ==
    \E servo_id \in ServoIds : \E acceleration \in {50, 255} : \E ok \in BOOLEAN :
        Answered("set_acceleration", <<servo_id, acceleration>>,
                 set_acceleration(Running(arm), servo_id, acceleration, ok))

SetPosition ==
    \E servo_id \in ServoIds : \E position \in {2048, 4096} :
      \E multi_turn_enable \in BOOLEAN : \E ok \in BOOLEAN :
        Answered("set_position", <<servo_id, position, multi_turn_enable>>,
                 FeetechController_set_position(Running(arm), servo_id, position,
                                                multi_turn_enable, ok))

SetSpeed ==
    \E servo_id \in ServoIds : \E speed \in {1000, 0 - 1000} : \E ok \in BOOLEAN :
        Answered("set_speed", <<servo_id, speed>>,
                 FeetechController_set_speed(Running(arm), servo_id, speed, ok))

SetTorqueLimit ==
    \E servo_id \in ServoIds : \E torque_limit \in {500, 1001} : \E ok \in BOOLEAN :
        Answered("set_torque_limit", <<servo_id, torque_limit>>,
                 set_torque_limit(Running(arm), servo_id, torque_limit, ok))

SyncReadParameters ==
    \E servo_ids \in {<<>>, <<1, 2>>} : \E ok \in BOOLEAN : \E answered \in Answering :
        Answered("sync_read_parameters", <<servo_ids>>,
                 sync_read_parameters(Running(arm), servo_ids,
                                      "SMS_STS_PRESENT_POSITION_L", 2, ok, answered))

SyncWritePositions ==
    \E servo_positions \in {<<>>, <<2048, 2048>>} : \E ok \in BOOLEAN :
        Answered("sync_write_positions", <<servo_positions>>,
                 sync_write_positions(Running(arm), servo_positions, ok))

IndividualWritePosition ==
    \E ok \in BOOLEAN :
        Answered("individual_write_position", <<1, 2048>>,
                 individual_write_position(Running(arm), 1, 2048, ok))

ReadServoState ==
    \E servo_id \in ServoIds : \E ok \in BOOLEAN : \E answered \in Answering :
        Answered("read_servo_state", <<servo_id>>,
                 read_servo_state(Running(arm), servo_id, ok, answered))

FeetechNext ==
    \/ Connect \/ Disconnect \/ PingServos \/ ChangeId \/ SetZeroOffset
    \/ ChangeMode \/ ReadMode \/ EnableTorque \/ DisableTorque
    \/ SetAcceleration \/ SetPosition \/ SetSpeed \/ SetTorqueLimit
    \/ SyncReadParameters \/ SyncWritePositions \/ IndividualWritePosition
    \/ ReadServoState

FeetechSpec == FeetechInit /\ [][FeetechNext]_vars

\* ------------------------------------------------------------------------
\* Properties
\* ------------------------------------------------------------------------

\* The index is the one built from the table in memory.
IndexCurrent == tree = cKDTree(positions_only(lookup_table))

\* Row m of a table as its position and its tension triple.
RowPosition(table, m) == <<table[m][1], table[m][2], table[m][3]>>

RowTensions(table, m) == <<table[m][4], table[m][5], table[m][6]>>

\* C1: every inverse_kinematic query is answered by an index built from the
\* lookup table held at the time of the query, also after a regeneration
\* whose save step failed.
C1_QueryIndexCurrent == (ret.op = "inverse_kinematic") => IndexCurrent

\* C2: an inverse query made while the lookup table is empty ends in the
\* typed error EmptyTableError and in nothing else.
C2_EmptyTableError ==
    (ret.op = "inverse_kinematic" /\ Len(lookup_table) = 0)
        => ret.out.kind = "EmptyTableError"

C4_SaveAtomic ==
    [][\/ npy' = npy
       \/ ~npy'.exists
       \/ npy' = np_save(GeneratedTable(n_steps))]_vars

\* C4 amended: a save that stops part of the way may leave a file that is
\* neither the previous table nor the new one, but every file a step leaves
\* that a load accepts is the file as it was or the complete new table.
C4_NoPartialAccepted ==
    [][np_load_ok(npy')
          => (npy' = npy \/ npy' = np_save(GeneratedTable(n_steps)))]_vars

\* A save that stopped after some rows: the header declares more rows than
\* the file holds.
C4_Witness ==
    /\ ret.out.kind = "OSError" /\ ret.out.fault = "npy_write"
    /\ npy.exists /\ Len(npy.data) > 0 /\ npy.hdr > Len(npy.data)
    /\ ~np_load_ok(npy)

\* C5: on a non-empty table inverse_kinematic returns the six fields of one
\* row of the current table, the Euclidean distance from the target to that
\* row's position, and no row of the table is strictly closer to the target.
C5_ExactNearest ==
    (ret.op = "inverse_kinematic" /\ Len(lookup_table) > 0)
        => /\ ret.out.kind = "ok"
           /\ \E m \in 1..Len(lookup_table) :
                 /\ ret.out.position = RowPosition(lookup_table, m)
                 /\ ret.out.tensions = RowTensions(lookup_table, m)
           /\ ret.out.dist = Dist(ret.out.position, ret.arg)
           /\ \A k \in 1..Len(lookup_table) :
                 Dist2(RowPosition(lookup_table, k), ret.arg)
                     >= Dist2(ret.out.position, ret.arg)

\* C6: on a table the sampler produced, with the index built from it, a
\* query whose target is the position of a record r returns distance 0 and
\* the tension triple of r, for every such r.
C6_RoundTrip ==
    (ret.op = "inverse_kinematic" /\ table_src = "sampler" /\ IndexCurrent)
        => \A m \in 1..Len(lookup_table) :
              (RowPosition(lookup_table, m) = ret.arg)
                  => /\ ret.out.kind = "ok"
                     /\ ret.out.dist = 0
                     /\ ret.out.tensions = RowTensions(lookup_table, m)

\* C7: a sampler run with n steps leaves a table of exactly n^3 records, one
\* for each ordered triple of the n sampled tension values; with n = 2 over
\* [0, 200] that is 8 records with T1, T2, T3 in {0, 200}.
C7_SamplerCount ==
    (table_src = "sampler")
        => /\ Len(lookup_table) = n_steps * n_steps * n_steps
           /\ Len(lookup_table) >= 1
           /\ {RowTensions(lookup_table, m) : m \in 1..Len(lookup_table)}
                 = Range(tension_values(n_steps))
                     \X Range(tension_values(n_steps))
                     \X Range(tension_values(n_steps))
           /\ Cardinality({RowTensions(lookup_table, m) :
                               m \in 1..Len(lookup_table)})
                 = Len(lookup_table)
           /\ (n_steps = 2
                 => /\ Len(lookup_table) = 8
                    /\ {RowTensions(lookup_table, m) : m \in 1..8}
                         = {0, 20000} \X {0, 20000} \X {0, 20000})

\* The table of a sampler run with two steps.
C7_Witness ==
    /\ table_src = "sampler" /\ n_steps = 2 /\ Len(lookup_table) = 8
    /\ RowTensions(lookup_table, 8) = <<20000, 20000, 20000>>

\* The tension vector whose entries 6, 7, 8 are t and whose other six
\* entries are zero.
ActuatedOnly(t) == <<0, 0, 0, 0, 0, 0, t[1], t[2], t[3]>>

\* The translation of the very last frame soft_arm_pcc returns.
LastFrameTranslation(result) ==
    Translation(result.frames[n_sec][Len(result.frames[n_sec])])

\* For every number of steps and every row the sampler appends, the
\* translation of the last frame of the forward kinematics on the row's
\* tension vector.
SampledTips ==
    AsTuple([n \in 1..MaxSteps |->
        AsTuple([m \in 1..(n * n * n) |->
            LastFrameTranslation(soft_arm_pcc(
                ActuatedOnly(<<tension_values(n)[((m - 1) \div (n * n)) + 1],
                               tension_values(n)[(((m - 1) \div n) % n) + 1],
                               tension_values(n)[((m - 1) % n) + 1]>>)))])])

\* C8: every record (x, y, z, t1, t2, t3) of a sampler run holds the
\* translation of the very last frame of the forward kinematics on the
\* vector whose entries 6, 7, 8 are t1, t2, t3 and whose others are zero, and
\* the run evaluates no other vector.
C8_TipOfLastFrame ==
    (table_src = "sampler")
        => /\ \A m \in 1..Len(lookup_table) :
                 /\ RowPosition(lookup_table, m) = SampledTips[n_steps][m]
                 /\ ActuatedOnly(RowTensions(lookup_table, m)) \in evals
           /\ \A v \in evals :
                 /\ Len(v) = n_tendons
                 /\ \A i \in 1..6 : v[i] = 0
                 /\ \E m \in 1..Len(lookup_table) :
                       v = ActuatedOnly(RowTensions(lookup_table, m))

\* A sampled record of a bent arm: its tip is off the axis.
C8_Witness ==
    /\ table_src = "sampler" /\ n_steps = 3
    /\ \E m \in 1..Len(lookup_table) :
          /\ lookup_table[m][1] # 0 /\ lookup_table[m][2] # 0
          /\ RowTensions(lookup_table, m) = <<20000, 0, 10000>>

\* C9: soft_arm_pcc on a tension sequence whose length is not 9 raises and
\* returns nothing, and the table, the index, the files and the engine are
\* as they were (the section parameters are constants of the model).
C9_WrongLengthRaises ==
    [][(ret'.op = "soft_arm_pcc" /\ Len(ret'.arg) # 9)
          => /\ ret'.out = [kind |-> "ValueError"]
             /\ UNCHANGED <<lookup_table, tree, npy, csv, engine, table_src>>]_vars

\* soft_arm_pcc was called with ten tensions.
C9_Witness ==
    /\ ret.op = "soft_arm_pcc" /\ Len(ret.arg) = 10
    /\ ret.out.kind = "ValueError"

\* C10: for the all-zero tension vector every section has zero curvature,
\* every one of the 3 * nPoints positions has x = 0 and y = 0, and the last
\* position is (0, 0, L_0 + L_1 + L_2).
C10_ZeroTensionStraight ==
    (ret.op = "soft_arm_pcc" /\ ret.arg = <<0, 0, 0, 0, 0, 0, 0, 0, 0>>)
        => /\ ret.out.kind = "ok"
           /\ ret.out.curvatures[1] = <<0, 0, 0>>
           /\ Len(ret.out.positions[1]) = 3 * nPoints
           /\ \A m \in 1..(3 * nPoints) :
                 ret.out.positions[1][m] = 0 /\ ret.out.positions[2][m] = 0
           /\ <<ret.out.positions[1][3 * nPoints],
                ret.out.positions[2][3 * nPoints],
                ret.out.positions[3][3 * nPoints]>> = <<0, 0, L[1] + L[2] + L[3]>>

\* soft_arm_pcc was called with the all-zero vector and returned.
C10_Witness ==
    /\ ret.op = "soft_arm_pcc" /\ ret.arg = <<0, 0, 0, 0, 0, 0, 0, 0, 0>>
    /\ ret.out.kind = "ok" /\ Len(ret.out.frames) = 3

\* The largest difference, in units of 10^-4, that the rounding of the product
\* T_prev @ Tj_local leaves between an entry of a rotation and the same entry
\* of the rotation it continues.
RotRounding == 2

\* Two frames with the same translation and bottom row, and rotations equal
\* up to the rounding of the arithmetic.
SameFrame(A, B) ==
    /\ Translation(A) = Translation(B)
    /\ A[4] = B[4]
    /\ \A r \in 1..3, c \in 1..3 : Abs(A[r][c] - B[r][c]) <= RotRounding

\* Column m (from 1) of the 3 x (n_sec * n) array positions.
Column(positions, m) == <<positions[1][m], positions[2][m], positions[3][m]>>

\* A call of soft_arm_pcc that has returned its three values.
ForwardDone == ret.op = "soft_arm_pcc" /\ ret.out.kind = "ok"

\* C11: chain continuity.  In every result of soft_arm_pcc the first global
\* frame of section 0 is the identity and, for j in {0, 1}, the first global
\* frame of section j+1 is the last global frame of section j (rotations up
\* to rounding, translations exactly), so the last position of section j is
\* the first position of section j+1.
C11_ChainContinuity ==
    ForwardDone =>
        /\ SameFrame(ret.out.frames[1][1], Eye4)
        /\ \A j \in 1..(n_sec - 1) :
              /\ SameFrame(ret.out.frames[j + 1][1], ret.out.frames[j][nPoints])
              /\ Column(ret.out.positions, j * nPoints + 1)
                     = Column(ret.out.positions, j * nPoints)

\* A bent arm: the junctions are away from the base and from each other, and
\* the second section starts in a rotated frame.
C11_Witness ==
    /\ ForwardDone
    /\ ret.arg = <<500, 400, 600, 300, 200, 400, 200, 100, 300>>
    /\ ret.out.frames[2][1] # Eye4
    /\ Column(ret.out.positions, nPoints + 1) # <<0, 0, 0>>
    /\ Column(ret.out.positions, 2 * nPoints + 1)
           # Column(ret.out.positions, nPoints + 1)
    /\ ret.out.curvatures[1][1] # 0

\* A call of trans_mat_cc that has ended, by a return or by an exception.
SectionEnded == ret.op = "trans_mat_cc" /\ ret.out # Pending

\* C12: in trans_mat_cc, whenever |kappa| < tol the section is straight
\* (identity rotation, position (0, 0, s), whatever phi), and no call, for
\* any kappa including 0 and any tolerance the caller passes, divides by
\* zero.
C12_NoDivisionByZero ==
    SectionEnded =>
        /\ ret.out.kind # "ZeroDivisionError"
        /\ (ret.out.kind = "ok" /\ IsStraight(ret.arg[1], ret.arg[5])) =>
              \A k \in 1..ret.arg[4] :
                  ret.out.T[k]
                      = Homogeneous(Eye3,
                            <<0, 0, Linspace(ret.arg[3], ret.arg[4], k - 1)>>)

\* The bottom row [0, 0, 0, 1] of a homogeneous transform.
BottomRow == <<0, 0, 0, Q>>

\* C13: every frame returned by trans_mat_cc and every global frame returned
\* by soft_arm_pcc has the bottom row exactly [0, 0, 0, 1].
C13_BottomRow ==
    /\ (SectionEnded /\ ret.out.kind = "ok") =>
           \A k \in 1..Len(ret.out.T) : ret.out.T[k][4] = BottomRow
    /\ ForwardDone =>
           \A j \in 1..Len(ret.out.frames) :
               \A k \in 1..Len(ret.out.frames[j]) :
                   ret.out.frames[j][k][4] = BottomRow

\* The last global frame of a bent arm: a product of three curved sections,
\* rotated and translated, with the bottom row in place.
C13_Witness ==
    /\ ForwardDone
    /\ ret.arg = <<10000, 20000, 0, 0, 500, 20000, 20000, 0, 0>>
    /\ Len(ret.out.frames) = n_sec
    /\ ret.out.frames[n_sec][nPoints][1][1] # Q
    /\ ret.out.frames[n_sec][nPoints][1][4] # 0
    /\ ret.out.frames[n_sec][nPoints][4] = BottomRow

\* The frame of a section of curvature kappa and bending plane phi at arc
\* length s, in the branch the tolerance selects.
FrameAt(kappa, phi, s, tol) ==
    IF IsStraight(kappa, tol) THEN StraightFrame(s) ELSE CurvedFrame(kappa, phi, s)

\* The arc length of sample k (from 1) of n_pts evenly spaced samples of a
\* section of length Lj: the share (k - 1) / (n_pts - 1) of Lj.
ArcLength(Lj, n_pts, k) ==
    IF n_pts = 1 THEN 0 ELSE RDiv((k - 1) * Lj, n_pts - 1)

\* A call of trans_mat_cc that has returned its frames.
SectionDone == ret.op = "trans_mat_cc" /\ ret.out.kind = "ok"

\* C14: trans_mat_cc called with n_pts >= 1 returns exactly n_pts frames in
\* the order of the arc length, the first at s = 0 and, when n_pts > 1, the
\* last at s = L; in both branches the first frame has the identity rotation
\* (up to the rounding of cphi^2 + sphi^2) and a zero translation, whatever
\* phi.
C14_FramesAlongArc ==
    SectionEnded =>
        /\ SectionDone
        /\ Len(ret.out.T) = ret.arg[4]
        /\ \A k \in 1..ret.arg[4] :
              ret.out.T[k] = FrameAt(ret.arg[1], ret.arg[2],
                                     ArcLength(ret.arg[3], ret.arg[4], k),
                                     ret.arg[5])
        /\ ret.out.T[1] = FrameAt(ret.arg[1], ret.arg[2], 0, ret.arg[5])
        /\ ret.arg[4] > 1 =>
              ret.out.T[ret.arg[4]]
                  = FrameAt(ret.arg[1], ret.arg[2], ret.arg[3], ret.arg[5])
        /\ SameFrame(ret.out.T[1], Eye4)
        /\ Translation(ret.out.T[1]) = <<0, 0, 0>>

\* The moment that loads section j (from 1): the local moment of j and of
\* every section distal to it, written out for the three sections.
LoadOn(M_local, j) ==
    CASE j = 1 -> M_local[1] + M_local[2] + M_local[3]
      [] j = 2 -> M_local[2] + M_local[3]
      [] j = 3 -> M_local[3]

\* The curvatures that follow from loading every section with LoadOn.
CurvaturesByLoad(Mx_local, My_local) ==
    CurvatureParams(AsTuple([j \in 1..n_sec |-> LoadOn(Mx_local, j)]),
                    AsTuple([j \in 1..n_sec |-> LoadOn(My_local, j)]))

\* Tension vectors t and u agree on every tendon of the sections distal to
\* section k (from 1).
AgreeBeyond(t, u, k) == \A i \in (3 * k + 1)..(3 * n_sec) : t[i] = u[i]

\* C15: Mx_cum[j] is the sum of Mx_local[k] for k from j to the last section
\* (likewise My_cum), so a tension on a tendon of section k changes the
\* curvature of the sections up to k only, never of a more distal one, and
\* the sampler's tendons 6, 7, 8 (the last section) load all three sections.
C15_CumulativeMoments ==
    ForwardDone =>
        /\ ret.out.curvatures
               = CurvaturesByLoad(LocalMoments(ret.arg, cos_sigma),
                                  LocalMoments(ret.arg, sin_sigma))
        /\ \A u \in ForwardCalls : \A k \in 1..(n_sec - 1) :
               AgreeBeyond(ret.arg, u, k) =>
                   \A j \in (k + 1)..n_sec :
                       /\ Curvatures(u)[1][j] = ret.out.curvatures[1][j]
                       /\ Curvatures(u)[2][j] = ret.out.curvatures[2][j]
        /\ (ret.arg = ActuatedOnly(SubSeq(ret.arg, 7, 9))
                /\ ret.out.curvatures[1][n_sec] # 0) =>
               \A j \in 1..n_sec : ret.out.curvatures[1][j] # 0

\* One actuated tendon of the last section pulled at 200 N: all three
\* sections bend, in the same plane.
C15_Witness ==
    /\ ForwardDone
    /\ ret.arg = <<0, 0, 0, 0, 0, 0, 20000, 0, 0>>
    /\ \A j \in 1..n_sec : ret.out.curvatures[1][j] > 0
    /\ ret.out.curvatures[2][1] = ret.out.curvatures[2][n_sec]

\* C16: for every valid tension vector soft_arm_pcc returns exactly three
\* frame sequences of nPoints frames each, three curvature triples (kappa,
\* phi, L), and 3 * nPoints positions laid out section-major and
\* sample-minor: position j * nPoints + k is the translation of global frame
\* k of section j.
C16_ResultLayout ==
    (ret.op = "soft_arm_pcc" /\ ret.out # Pending) =>
        /\ ret.out.kind = "ok"
        /\ Len(ret.out.frames) = 3
        /\ \A j \in 1..3 : Len(ret.out.frames[j]) = nPoints
        /\ Len(ret.out.curvatures) = 3
        /\ \A i \in 1..3 : Len(ret.out.curvatures[i]) = 3
        /\ ret.out.curvatures[3] = L
        /\ Len(ret.out.positions) = 3
        /\ \A c \in 1..3 : Len(ret.out.positions[c]) = 3 * nPoints
        /\ \A j \in 0..2 : \A k \in 0..(nPoints - 1) :
               Column(ret.out.positions, j * nPoints + k + 1)
                   = Translation(ret.out.frames[j + 1][k + 1])

\* The test's tension vector: the positions of the three sections differ, and
\* the second position of the second section is that of its second frame and
\* not that of a frame of another section.
C16_Witness ==
    /\ ForwardDone
    /\ ret.arg = <<500, 400, 600, 300, 200, 400, 200, 100, 300>>
    /\ Column(ret.out.positions, nPoints + 2)
           = Translation(ret.out.frames[2][2])
    /\ Column(ret.out.positions, nPoints + 2)
           # Translation(ret.out.frames[3][4])
    /\ Column(ret.out.positions, 3 * nPoints)
           = Translation(ret.out.frames[3][nPoints])
    /\ Column(ret.out.positions, 3 * nPoints)
           # Column(ret.out.positions, 2 * nPoints)

\* The results inverse_kinematic may return for a target, given the table
\* and the index of the engine.
QueryResults(table, index, target) ==
    {inverse_kinematic(table, answer) : answer \in tree_query(index, target)}

SavedWithoutError ==
    /\ ret.out.kind = "ok"
    /\ \/ ret.op = "generate_lookup_table"
       \/ ret.op = "__init__" /\ ret.out.sampled

StartChecks ==
    << Cmd("ho", "start_controller", <<>>, <<>>),
       Cmd("ho", "are_online", <<>>, <<>>),
       Cmd("feetech", "connect", <<>>, <<>>),
       Cmd("feetech", "ping_servos", <<>>, <<>>) >>

\* The first of the four checks that the answers e fail (1 to 4), or 0 when
\* they pass all four.
FirstFailed(e) ==
    IF ~e.ho_start THEN 1
    ELSE IF e.online # {1, 2, 3} THEN 2
    ELSE IF e.ft_connect # "ok" THEN 3
    ELSE IF e.ft_ids # {1, 2} THEN 4
    ELSE 0

\* The calls of a trace from position k + 1 on.
After(trace, k) == SubSeq(trace, k + 1, Len(trace))

\* The trace of disconnect_controllers(): the Feetech port closed if there
\* is a port handler, then the HO8110 controller stopped, and nothing else.
IsDisconnection(trace) ==
    /\ Len(trace) \in {1, 2}
    /\ trace[Len(trace)] = Cmd("ho", "stop_controller", <<>>, <<>>)
    /\ Len(trace) = 2 => trace[1] = Cmd("feetech", "disconnect", <<>>, <<>>)

\* C19: start() returns True and sets is_running to True only if, in this
\* order, the HO8110 controller started, motors 1, 2 and 3 were reported
\* online, the Feetech port connected and the pinged ids were exactly
\* {1, 2}; when a check fails, the checks before it were made in order,
\* disconnect_controllers() is called, an exception is raised, is_running is
\* False, and no later check and no motor command is performed.
C19_StartChecks ==
    ret.op = "start" =>
        /\ (arm.is_running \/ ret.out.value = "True") =>
              /\ FirstFailed(ret.arg) = 0
              /\ SubSeq(wire, 1, 4) = StartChecks
              /\ arm.is_running
        /\ FirstFailed(ret.arg) # 0 =>
              /\ ret.out.kind = "raised"
              /\ ret.out.exc \notin {"none", "UnboundLocalError", "TypeError"}
              /\ ~arm.is_running
              /\ SubSeq(wire, 1, FirstFailed(ret.arg))
                     = SubSeq(StartChecks, 1, FirstFailed(ret.arg))
              /\ IsDisconnection(After(wire, FirstFailed(ret.arg)))
              /\ MotorCommandsOf(wire) = <<>>

\* The ping finds servo 1 only: the three checks before it passed, the port
\* that was opened is closed again, the HO8110 controller is stopped and
\* no motor was commanded.
C19_Witness ==
    /\ ret.op = "start"
    /\ FirstFailed(ret.arg) = 4
    /\ ret.out.exc = "Feetech servos 1 and 2 not found"
    /\ Len(wire) = 6
    /\ wire[5] = Cmd("feetech", "disconnect", <<>>, <<>>)
    /\ ~arm.connected
    /\ ~arm.is_running

\* An argument list of throwing() with an argument out of its range:
\* stop_pos outside [0, 200], ahead_pos outside [-200, 0], throwback_pos
\* outside [0, 200], init_position outside [0, 3500] or end_position outside
\* [0, init_position].
OutOfRange(a) ==
    \/ a[1] \notin 0..200
    \/ a[2] \notin (0 - 200)..0
    \/ a[3] \notin 0..200
    \/ a[4] \notin 0..3500
    \/ a[5] \notin 0..a[4]

\* C20: throwing() validates its arguments before any hardware action.  A
\* call with an argument out of its range logs an error and returns, having
\* made no call on the HO8110 motors or the Feetech servos and having left
\* the loop counters, the home positions and the rest of the controller as
\* they were.
C20_ThrowingValidates ==
    [][(ret'.op = "throwing" /\ OutOfRange(ret'.arg)) =>
          /\ ret'.out.kind = "ok"
          /\ Len(ret'.out.log) = 1
          /\ wire' = <<>>
          /\ arm'.loop_counter_1 = arm.loop_counter_1
          /\ arm'.loop_counter_2 = arm.loop_counter_2
          /\ arm'.home_position_feetech = arm.home_position_feetech
          /\ arm'.home_position_ho = arm.home_position_ho
          /\ arm' = arm
      ]_vars

\* A throw refused for its end_position, 3001 past an init_position of
\* 3000, on a running controller whose home positions were set.
C20_Witness ==
    /\ ret.op = "throwing"
    /\ ret.arg = <<150, 0 - 100, 100, 3000, 3001>>
    /\ ret.out.log = <<"end_position must be between 0 and init_position">>
    /\ wire = <<>>
    /\ arm.is_running
    /\ arm.connected
    /\ arm.home_position_feetech = <<100, 4000>>
    /\ arm.home_position_ho = <<10, 20, 30>>

\* C22 as stated: an explicit call of generate_lookup_table never rebuilds
\* the index, which stays the one built at construction.
C22_IndexOnlyAtLoad ==
    [][(ret'.op = "generate_lookup_table") => tree' = tree]_vars

\* C22 amended: an explicit call of generate_lookup_table replaces the table
\* in memory and, when both saves succeed, rebuilds the index from the new
\* table as its last step; only when a save raises does the index stay the
\* one built before the call.
C22_IndexRebuiltAfterSaves ==
    [][(ret'.op = "generate_lookup_table")
          => /\ lookup_table' = GeneratedTable(n_steps)
             /\ IF ret'.out.kind = "ok"
                THEN tree' = cKDTree(positions_only(lookup_table'))
                ELSE tree' = tree]_vars

\* An explicit regeneration that ran to its end on an engine that had
\* loaded another table: the index is the one of the new table.
C22_Witness ==
    /\ ret.op = "generate_lookup_table" /\ ret.out.kind = "ok"
    /\ n_steps > 1 /\ Len(lookup_table) = n_steps * n_steps * n_steps
    /\ tree = cKDTree(positions_only(GeneratedTable(n_steps)))
    /\ tree # cKDTree(positions_only(GeneratedTable(1)))

\* The rows of a table whose first tension is one of the first i sampled
\* values: the records collected during the outer sweeps 1..i.
CollectedBySweep(table, n, i) ==
    {m \in 1..Len(table) : \E k \in 1..i : table[m][4] = tension_values(n)[k]}

\* The records collected during the outer sweeps 1..i of each sampler run,
\* computed once.
SweepRecords ==
    [n \in 1..MaxSteps |->
        [i \in 1..n |-> CollectedBySweep(GeneratedTable(n), n, i)]]

\* The step ended a run of generate_lookup_table, called explicitly or by
\* the construction whose load failed.
SamplerRan == ret.op = "generate_lookup_table"
                 \/ (ret.op = "__init__" /\ ret.out.sampled)

\* C23: a run of generate_lookup_table makes its n^3 forward evaluations,
\* then replaces the table in memory, then writes the binary file, then the
\* text export, then rebuilds the index, a run that a write ends having made
\* the effects before that write and none after it; after outer sweep i
\* exactly i*n^2 records are collected; the text export is read by no
\* operation, a construction loading the binary file alone.
C23_RegenerationOrder ==
    [][/\ SamplerRan'
          => /\ evals' = sampler_calls(n_steps)
             /\ Cardinality(evals') = n_steps * n_steps * n_steps
             /\ (npy' # npy => ret'.out.fault \notin {"npy_open"})
             /\ (csv' # csv => npy' = np_save(GeneratedTable(n_steps)))
             /\ (ret'.out.fault = "none"
                   => /\ npy' = np_save(GeneratedTable(n_steps))
                      /\ csv' = np_savetxt(GeneratedTable(n_steps))
                      /\ lookup_table' = GeneratedTable(n_steps)
                      /\ tree' = cKDTree(positions_only(lookup_table')))
             /\ (ret'.out.fault # "none" /\ ret'.op = "generate_lookup_table"
                   => /\ lookup_table' = GeneratedTable(n_steps)
                      /\ tree' = tree
                      /\ csv' # np_savetxt(GeneratedTable(n_steps)) \/ csv' = csv)
             /\ \A i \in 1..n_steps :
                   SweepRecords[n_steps][i] = 1..progress(i, n_steps)
       /\ (ret'.op = "__init__")
          => IF np_load_ok(npy)
             THEN /\ ~ret'.out.sampled
                  /\ lookup_table' = np_load(npy)
                  /\ npy' = npy /\ csv' = csv
             ELSE ret'.out.sampled
       /\ (ret'.op \in {"inverse_kinematic", "soft_arm_pcc"}) => csv' = csv]_vars

\* An explicit regeneration with three steps per tendon that ran to its
\* end over files of an earlier run: 27 evaluations, the table, both files
\* and the index are the new ones.
C23_Witness ==
    /\ ret.op = "generate_lookup_table" /\ ret.out.fault = "none"
    /\ n_steps = 3 /\ Cardinality(evals) = 27 /\ Len(lookup_table) = 27
    /\ npy = np_save(lookup_table) /\ csv = np_savetxt(lookup_table)
    /\ tree = cKDTree(positions_only(lookup_table))
    /\ CollectedBySweep(lookup_table, 3, 2) = 1..18

\* C30: after any sequence of connect() and disconnect() calls, connected is
\* True only if the port of the current port handler is open, and a
\* connect() that returned False leaves connected False.
C30_ConnectedOnlyIfOpen ==
    /\ arm.connected => arm.portHandler = "open"
    /\ (ret.op = "connect" /\ ret.out.kind = "ok" /\ ret.out.value = FALSE)
          => ~arm.connected

\* The public operations of the Feetech controller other than connect() and
\* disconnect().
PublicOperations ==
    {"ping_servos", "change_id", "set_zero_offset", "change_mode", "read_mode",
     "enable_torque", "disable_torque", "set_acceleration", "set_position",
     "set_speed", "set_torque_limit", "sync_read_parameters",
     "sync_write_positions", "individual_write_position", "read_servo_state"}

\* The value an operation returns when it fails: [] for ping_servos, None
\* for read_mode and read_servo_state, {} for sync_read_parameters, False
\* for the others.
FailureValue(op) ==
    IF op = "ping_servos" THEN <<>>
    ELSE IF op \in {"read_mode", "read_servo_state"} THEN None
    ELSE IF op = "sync_read_parameters" THEN Dict({})
    ELSE FALSE

\* C21: while the controller is not connected (it never connected, its last
\* connect() failed or it disconnected, so that it holds no open port),
\* every public operation returns its failure value, sends and reads no
\* packet and leaves found_servos and last_sync_write as they are.
C21_NotConnectedFails ==
    [][(arm.portHandler # "open" /\ ret'.op \in PublicOperations)
          => /\ ret'.out.kind = "ok"
             /\ ret'.out.value = FailureValue(ret'.op)
             /\ wire' = <<>>
             /\ arm'.found_servos = arm.found_servos
             /\ arm'.last_sync_write = arm.last_sync_write]_vars

\* The write operations that take a list of servos.
ListWrites ==
    {"enable_torque", "disable_torque", "change_mode", "set_acceleration",
     "set_position", "set_speed", "set_torque_limit"}

\* The value a write call asks for, as its packet carries it: 1 and 0 for
\* the torque switch, the converted speed, else the value passed.
RequestedValue(op, arg) ==
    IF op = "enable_torque" THEN 1
    ELSE IF op = "disable_torque" THEN 0
    ELSE IF op = "set_speed" THEN converted_speed(arg[2])
    ELSE arg[2]

\* The call wrote a value in its range to a list of several servos.
MultiServoWrite(call) ==
    /\ call.op \in ListWrites
    /\ ~call.arg[1].int /\ Len(call.arg[1].ids) > 1
    /\ call.op = "change_mode" => call.arg[2] \in 0..3
    /\ call.op = "set_acceleration" => call.arg[2] \in 0..254
    /\ call.op = "set_position" => (call.arg[2] \in 0..4095 \/ call.arg[3])
    /\ call.op = "set_torque_limit" => call.arg[2] \in 0..1000

\* C24: on a connected controller every multi-servo write call, also one
\* that repeats the servo list, address, value and data length of the
\* previous sync write, ends without an exception, transmits one sync-write
\* packet carrying the requested value to the listed servos and returns
\* True or False.
C24_SyncWritesTransmit ==
    [][(arm.connected /\ arm.portHandler = "open" /\ MultiServoWrite(ret'))
          => /\ ret'.out.kind = "ok"
             /\ ret'.out.value \in BOOLEAN
             /\ Len(wire') = 1
             /\ wire'[1].ids = ret'.arg[1].ids
             /\ wire'[1].val = <<RequestedValue(ret'.op, ret'.arg)>>]_vars

\* C25: stop() always returns, without an exception, with both controllers
\* disconnected and is_running False, whatever safe_stop() and the two
\* disconnections raise.
C25_StopDisconnects ==
    (ret.op = "stop")
        => /\ ret.out.kind = "ok"
           /\ ~arm.is_running
           /\ ~arm.connected
           /\ ~arm.ho_started

\* The waits of a throw, in order: each as the number of feedback reads it
\* made.
FeedbackReads(trace) ==
    SelectSeq(trace, LAMBDA c : c.cmd = "get_feedback")

\* The number of calls of stop() in a trace: each stops the HO8110
\* controller once.
StopCalls(trace) ==
    Len(SelectSeq(trace, LAMBDA c : c.cmd = "stop_controller"))

\* The error msg is in the log.
Logged(log, msg) == \E k \in 1..Len(log) : log[k] = msg

EndOfStop(trace) ==
    CHOOSE k \in 1..Len(trace) : trace[k].cmd = "stop_controller"

\* C27: when throwing() has called stop() because one of its timeouts
\* expired, no position, speed, current, enable or torque command follows
\* that stop() before throwing() returns.
C27_NothingAfterTimeoutStop ==
    (ret.op = "throwing" /\ StopCalls(wire) = 1)
        => MotorCommandsOf(After(wire, EndOfStop(wire))) = <<>>

\* The commands set_feetech_position(pos1, pos2) is to send from the home
\* positions home: one to each servo whose argument is given.
CommandsFor(pos1, pos2, home) ==
    (IF pos1 # <<>>
     THEN <<Cmd("feetech", "set_position", <<1>>, <<pos1[1] + home[1]>>)>>
     ELSE <<>>)
    \o (IF pos2 # <<>>
        THEN <<Cmd("feetech", "set_position", <<2>>, <<pos2[1] + home[2]>>)>>
        ELSE <<>>)

\* C28: set_feetech_position(pos1, pos2) commands each servo whose argument
\* is given, and only those, to its argument plus its home position, also
\* when only pos2 is given; the loop counter of a servo becomes its
\* commanded position // 4096 exactly when its command succeeded, and is
\* left unchanged otherwise.
C28_CommandsGivenServos ==
    [][(ret'.op = "set_feetech_position")
          => /\ wire' = CommandsFor(ret'.arg[1], ret'.arg[2],
                                    arm.home_position_feetech)
             /\ arm'.loop_counter_1 =
                    IF ret'.arg[1] # <<>> /\ ret'.arg[3]
                    THEN (ret'.arg[1][1] + arm.home_position_feetech[1]) \div 4096
                    ELSE arm.loop_counter_1
             /\ arm'.loop_counter_2 =
                    IF ret'.arg[2] # <<>> /\ ret'.arg[4]
                    THEN (ret'.arg[2][1] + arm.home_position_feetech[2]) \div 4096
                    ELSE arm.loop_counter_2]_vars

\* C29: after set_feetech_position(p, p) succeeded for both servos, a
\* read_feetech_position() to which each servo reports its commanded
\* position modulo 4096 returns (p, p), whatever the sign of p plus the
\* home position and however many turns it spans.
C29_PositionRoundTrip ==
    [][(/\ ret.op = "set_feetech_position"
        /\ ret.arg[1] # <<>> /\ ret.arg[2] = ret.arg[1]
        /\ ret.arg[3] /\ ret.arg[4]
        /\ ret'.op = "read_feetech_position"
        /\ ret'.arg[1] = <<(ret.arg[1][1] + arm.home_position_feetech[1]) % 4096>>
        /\ ret'.arg[2] = <<(ret.arg[1][1] + arm.home_position_feetech[2]) % 4096>>)
          => /\ ret'.out.kind = "ok"
             /\ ret'.out.value = <<ret.arg[1][1], ret.arg[1][1]>>]_vars

\* A position below home read back: servo 1 was commanded to a negative
\* position (loop counter -1) and servo 2 past a full turn below its home,
\* and the read returns the same negative position for both.
C29_Witness ==
    /\ ret.op = "read_feetech_position"
    /\ ret.out.kind = "ok"
    /\ ret.out.value = <<0 - 5000, 0 - 5000>>
    /\ arm.home_position_feetech = <<100, 4000>>
    /\ arm.loop_counter_1 = 0 - 2
    /\ arm.loop_counter_2 = 0 - 1
    /\ ret.arg = <<<<(100 - 5000) % 4096>>, <<(4000 - 5000) % 4096>>>>

====
